---- MODULE Spec2Model ----
(***************************************************************************)
(* A model of pygrader's rubric-driven grading engine:                     *)
(*   common/rubric.py   RubricItem.get_test / has_test_ran                 *)
(*   common/grader.py   Grader.grade, _grade_item, _run_and_prompt,        *)
(*                      _prompt_grade                                      *)
(*   common/grades.py   Grades (ledger, synchronize, scoring)              *)
(*   borowski_common/late_days.py   LateDays                               *)
(***************************************************************************)
EXTENDS Integers, Sequences, FiniteSets, TLC

VARIABLES
    rubric,             \* Rubric._rubric: per item, the resolved depends_on lists
    env,                \* Grader.env: the flags and the rubric code of the session
    grades,             \* Grades._grades[submitter]["scores"] (in memory)
    file,               \* the scores of the submitter in the grades file on disk
    ran,                \* HWTester.ran_rubric_item_codes
    stack,              \* the active _grade_item calls, innermost first
    todo,               \* items the loops of grade/_grade_all/_grade_table still visit
    next_item_flag,     \* Grader.next_item_flag
    next_student_flag,  \* Grader.next_student_flag
    status,             \* position of Grader.grade: idle, grading, done, fatal
    invoked,            \* items whose test callback was invoked in this session
    dep_invoked,        \* items whose test callback a dependency run invoked
    dep_repeated,       \* items whose test callback dependency runs invoked again
    reran,              \* the operator asked for a re-run (a or s) in this session
    warned,             \* items whose test wrapper printed the is_graded warning
    \* Grades.synchronize, step by step
    ledger,             \* Grades._grades of the process that writes
    grades_file,        \* what the grades file holds on disk
    sync_pc,            \* position of the process in synchronize
    persisted,          \* what the grades file held before the last open
    \* Grades._get_submission_grades
    score_in,           \* its inputs: the rubric, the scores, rubric_code, policy data
    score_pc,           \* position: loop, returned
    item_idx,           \* the index of the item the loop looks at next
    total_pts,          \* the local total_pts
    before_pts,         \* total_pts before the item that was added last
    all_comments,       \* the local all_comments
    score_out,          \* the tuple returned
    \* LateDays of several grading processes
    late_days_file,     \* what the late days file holds
    lock,               \* the process that holds the FileLock, or NoProc
    late,               \* per process: position, arguments, class_late_days
    \* get_points_and_comments of a policy chain
    pol_chain,          \* CompositeGradingPolicy.grading_policies: the policy names
    pol_data,           \* policy_data: the (key, data) pairs of the dict, in its order
    pol_orig,           \* the points and the comments the caller passed first
    pol_caller,         \* the content of the list object the caller passes
    pol_pts,            \* the local total_pts
    pol_ref,            \* what the local all_comments refers to: caller or fresh
    pol_fresh,          \* the content of the list a policy made, when pol_ref is fresh
    pol_idx,            \* the index of the policy the loop looks at next
    pol_pc,             \* position: loop, returned
    pol_out,            \* the (points, comments) returned by the calls so far
    \* the grades file over several grading sessions
    lg_file,            \* the grades file: whether it exists and the document in it
    lg_pc,              \* position of the session: idle, constructed, grading, fatal, error
    lg_kind,            \* the class constructed: Grades or BorowskiGrades
    lg_mode,            \* the mode of the session: grade, regrade, test_only
    lg_submitter,       \* Grades.submitter
    lg_rubric,          \* Grades.rubric: its items as the sorted loops visit them
    lg_prev,            \* the grades file as the constructor of the session found it
    lg_fatal,           \* the subitem code the message of sys.exit names
    lg_computed,        \* the last step of the session computed policy data
    lg_submissions,     \* BorowskiGrades.submissions: its keys
    \* Rubric.__init__
    rl_doc,             \* rubric_json: the items of the document, in document order
    rl_idx,             \* the index of the item the loops create next
    rl_rubric,          \* Rubric._rubric: the items created so far with their lists
    rl_pc,              \* position: loading, loaded, raised
    rl_error,           \* the message of the exception raised
    \* Grader.grade
    error,              \* the ValueError Grader.grade raised, if any
    \* LateDaysPolicy.get_late_status on the LateDays objects of one process
    ld_file,            \* what the late days file holds
    ld_objects,         \* per LateDays object: hw_name, submitters, class_late_days
    ld_status           \* what the last get_late_status returned

sessionVars == <<rubric, env, grades, file, ran, stack, todo, next_item_flag,
                 next_student_flag, status, invoked, dep_invoked, dep_repeated,
                 reran, warned>>

syncVars == <<ledger, grades_file, sync_pc, persisted>>

scoreVars == <<score_in, score_pc, item_idx, total_pts, before_pts, all_comments, score_out>>

lateVars == <<late_days_file, lock, late>>

policyVars == <<pol_chain, pol_data, pol_orig, pol_caller, pol_pts, pol_ref, pol_fresh,
                pol_idx, pol_pc, pol_out>>

ledgerVars == <<lg_file, lg_pc, lg_kind, lg_mode, lg_submitter, lg_rubric, lg_prev, lg_fatal,
                lg_computed, lg_submissions>>

loadVars == <<rl_doc, rl_idx, rl_rubric, rl_pc, rl_error>>

\* the variables of the parts added to the four above
errorVars == <<error>>

budgetVars == <<ld_file, ld_objects, ld_status>>

restVars == <<policyVars, ledgerVars, loadVars, errorVars, budgetVars>>

\* the variables of the first four parts
coreVars == <<sessionVars, syncVars, scoreVars, lateVars>>

vars == <<sessionVars, syncVars, scoreVars, lateVars, restVars>>

\* what the actions of one added part leave alone
notPolicyVars == <<coreVars, ledgerVars, loadVars, errorVars, budgetVars>>

notLedgerVars == <<coreVars, policyVars, loadVars, errorVars, budgetVars>>

notLoadVars == <<coreVars, policyVars, ledgerVars, errorVars, budgetVars>>

notBudgetVars == <<coreVars, policyVars, ledgerVars, loadVars, errorVars>>

(***************************************************************************)
(* Bounds of the model.                                                    *)
(***************************************************************************)
\* longest list a test callback returns
MaxAutogrades == 2

(***************************************************************************)
(* The rubric: tables A (A1, A2) and B (B1), in document order.            *)
(***************************************************************************)
RubricKeys == <<"A", "B">>

TableItems(table_k) == IF table_k = "A" THEN <<"A1", "A2">> ELSE <<"B1">>

RubricOrder == TableItems("A") \o TableItems("B")

Items == {RubricOrder[i] : i \in 1..Len(RubricOrder)}

\* len(rubric_item.subitems)
NumSubitems(item) == IF item = "B1" THEN 2 ELSE 1

\* f"{rubric_item.code}.{i}"
SubitemCode(item, i) == <<item, i>>

SubitemCodes == UNION {{SubitemCode(item, i) : i \in 1..NumSubitems(item)} : item \in Items}

Position(item) == CHOOSE i \in 1..Len(RubricOrder) : RubricOrder[i] = item

\* the items already in self._rubric when item is created
DeclaredBefore(item) == {RubricOrder[i] : i \in 1..(Position(item) - 1)}

(***************************************************************************)
(* Values.                                                                 *)
(***************************************************************************)
\* {"award": None, "comments": None}
Ungraded == [award |-> "None", comments |-> "None"]

Score(award, comments) == [award |-> IF award THEN "True" ELSE "False", comments |-> comments]

\* results of a test callback: None, True, or a list of (flag, comment) pairs
NoneResult == [kind |-> "None", list |-> <<>>]

TrueResult == [kind |-> "True", list |-> <<>>]

ListResult(l) == [kind |-> "list", list |-> l]

AutogradePairs == {<<"y", "">>, <<"n", "c">>}

RECURSIVE SeqsUpTo(_, _)
SeqsUpTo(S, n) ==
    IF n = 0 THEN {<<>>}
    ELSE LET shorter == SeqsUpTo(S, n - 1)
         IN  shorter \cup {Append(l, x) : l \in {m \in shorter : Len(m) = n - 1}, x \in S}

TestResults == {NoneResult, TrueResult} \cup {ListResult(l) : l \in SeqsUpTo(AutogradePairs, MaxAutogrades)}

\* Python truthiness of autogrades: None and [] are falsy
Truthy(autogrades) ==
    \/ autogrades.kind = "True"
    \/ autogrades.kind = "list" /\ Len(autogrades.list) > 0

\* what the operator types at the "Apply? [y/n]" and "Comments:" prompts
PromptAnswers == {<<"y", "">>, <<"n", "c">>}

(***************************************************************************)
(* Grades (common/grades.py)                                               *)
(***************************************************************************)
\* Grades.is_graded for the submitter of the session
is_graded(code) == grades[code].award # "None"

\* all(self.grades.is_graded(f"{code}.{si}") for si in subitems)
AllGraded(item) == \A i \in 1..NumSubitems(item) : is_graded(SubitemCode(item, i))

\* the subitem codes of one item, in order
CodesOf(item) == [i \in 1..NumSubitems(item) |-> SubitemCode(item, i)]

\* sort_keys=True: the order in which json.dump writes the scores
SortedCodes == CodesOf("A1") \o CodesOf("A2") \o CodesOf("B1")

\* the document json.dump writes: the opening brace, one entry per code, the closing brace
json_dump(scores) ==
    [open |-> TRUE,
     entries |-> [i \in 1..Len(SortedCodes) |->
                    [code |-> SortedCodes[i], score |-> scores[SortedCodes[i]]]],
     close |-> TRUE]

\* Grades.synchronize, whole: the file holds the document json.dump wrote
synchronize(scores) == json_dump(scores)

\* json.load in _load_grades: the scores a whole document holds, by subitem code
json_load(doc) ==
    [code \in {doc.entries[i].code : i \in 1..Len(doc.entries)} |->
        LET i == CHOOSE j \in 1..Len(doc.entries) : doc.entries[j].code = code
        IN  doc.entries[i].score]

\* Grades._add_submission_entry
NewEntry == [code \in SubitemCodes |-> Ungraded]

(***************************************************************************)
(* RubricItem (common/rubric.py)                                           *)
(***************************************************************************)
\* RubricItem.has_test_ran
has_test_ran(item) == item \in ran

RECURSIVE SelectSeqBy(_, _)
SelectSeqBy(s, S) ==
    IF s = <<>> THEN <<>>
    ELSE IF Head(s) \in S THEN <<Head(s)>> \o SelectSeqBy(Tail(s), S)
         ELSE SelectSeqBy(Tail(s), S)

\* test_wrapper: the is_graded dependencies with an ungraded subitem
ungraded_dependencies(item) ==
    SelectSeqBy(rubric[item].is_graded, {d \in Items : ~AllGraded(d)})

\* _grade_item: the has_ran dependencies whose test has not run, computed once
dependencies(item) ==
    SelectSeqBy(rubric[item].has_ran, {d \in Items : ~has_test_ran(d)})

(***************************************************************************)
(* Grader (common/grader.py)                                               *)
(***************************************************************************)
\* a call of _grade_item: its arguments, locals and position
Frame(item, skip_if_graded) ==
    [item |-> item, skip_if_graded |-> skip_if_graded, pc |-> "enter",
     deps |-> <<>>, autogrades |-> NoneResult, raised |-> FALSE, idx |-> 0]

Top == Head(stack)

Running == status = "grading" /\ stack # <<>>

\* the replacement of the innermost frame
SetTop(f) == <<f>> \o Tail(stack)

\* _grade_item returns: line 205 resets next_item_flag
Return ==
    /\ stack' = Tail(stack)
    /\ next_item_flag' = FALSE

\* the items Grader.grade visits for a rubric code, in order
ItemsOfCode(key) ==
    IF key = "ALL" THEN RubricOrder
    ELSE IF key \in {"A", "B"} THEN TableItems(key)
    ELSE <<key>>

\* letters only (str.isalpha)
IsAlpha(key) == key \in {"ALL", "A", "B", "C"}

\* the table letter key[0] of an item code
TableOf(key) == IF key \in {"A1", "A2", "A3"} THEN "A" ELSE IF key = "B1" THEN "B" ELSE "C"

TableKeys == {RubricKeys[i] : i \in 1..Len(RubricKeys)}

\* Grader._check_valid_table: the ValueError it raises, if any
check_valid_table(table_key) ==
    IF table_key \notin TableKeys THEN <<"does not have table", table_key>> ELSE <<>>

\* Grader._check_valid_item: the ValueError it raises, if any
check_valid_item(item_key) ==
    LET keys == TableItems(TableOf(item_key))
    IN  IF item_key \notin {keys[i] : i \in 1..Len(keys)}
        THEN <<"does not have rubric item", item_key>>
        ELSE <<>>

\* Grader.grade lines 65-75: the ValueError the checks of the rubric code raise
CheckCode(key) ==
    IF key = "ALL" THEN <<>>
    ELSE IF IsAlpha(key) THEN check_valid_table(key)
    ELSE IF check_valid_table(TableOf(key)) # <<>> THEN check_valid_table(TableOf(key))
    ELSE check_valid_item(key)

\* _check_valid_table and _check_valid_item pass
ValidCode(key) == CheckCode(key) = <<>>

\* a Grader.grade that returns without a word when the rubric code is unknown
GradeSilent ==
    /\ status = "idle"
    /\ IF ValidCode(env.code)
       THEN /\ status' = "grading"
            /\ todo' = ItemsOfCode(env.code)
       ELSE /\ status' = "done"
            /\ todo' = <<>>
    /\ UNCHANGED error
    /\ UNCHANGED <<rubric, env, grades, file, ran, stack, next_item_flag,
                   next_student_flag, invoked, dep_invoked, dep_repeated, reran, warned>>
    /\ UNCHANGED <<syncVars, scoreVars, lateVars, policyVars, ledgerVars, loadVars, budgetVars>>

\* Grader.grade up to the first _grade_item
Grade ==
    /\ status = "idle"
    /\ IF CheckCode(env.code) = <<>>
       THEN /\ status' = "grading"
            /\ todo' = ItemsOfCode(env.code)
            /\ UNCHANGED error
       ELSE /\ status' = "fatal"
            /\ todo' = <<>>
            /\ error' = CheckCode(env.code)
    /\ UNCHANGED <<rubric, env, grades, file, ran, stack, next_item_flag,
                   next_student_flag, invoked, dep_invoked, dep_repeated, reran, warned>>
    /\ UNCHANGED <<syncVars, scoreVars, lateVars, policyVars, ledgerVars, loadVars, budgetVars>>

\* the loops of _grade_all and _grade_table call _grade_item on the next item
GradeNextItem ==
    /\ status = "grading" /\ stack = <<>>
    /\ todo # <<>> /\ ~next_student_flag
    /\ stack' = <<Frame(Head(todo), TRUE)>>
    /\ todo' = Tail(todo)
    /\ UNCHANGED <<rubric, env, grades, file, ran, next_item_flag,
                   next_student_flag, status, invoked, dep_invoked, dep_repeated, reran, warned>>
    /\ UNCHANGED <<syncVars, scoreVars, lateVars, restVars>>

\* the loops end (exhausted, or next_student_flag); grade cleans up and dumps
GradeDone ==
    /\ status = "grading" /\ stack = <<>>
    /\ todo = <<>> \/ next_student_flag
    /\ status' = "done"
    /\ UNCHANGED <<rubric, env, grades, file, ran, stack, todo, next_item_flag,
                   next_student_flag, invoked, dep_invoked, dep_repeated, reran, warned>>
    /\ UNCHANGED <<syncVars, scoreVars, lateVars, restVars>>

\* GradeItemEnter without the skip of a graded item
GradeItemEnterNoSkip ==
    /\ Running /\ Top.pc = "enter"
    /\ stack' = SetTop([Top EXCEPT
           !.pc = IF env.grade_only THEN "grade" ELSE "test",
           !.deps = IF env.grade_only THEN <<>> ELSE dependencies(Top.item)])
    /\ UNCHANGED <<rubric, env, grades, file, ran, todo, next_item_flag, next_student_flag,
                   status, invoked, dep_invoked, dep_repeated, reran, warned>>
    /\ UNCHANGED <<syncVars, scoreVars, lateVars, restVars>>

\* _grade_item lines 145-164: the skip check and the dependency list
GradeItemEnter ==
    /\ Running /\ Top.pc = "enter"
    /\ IF /\ ~env.test_only /\ ~env.regrade /\ Top.skip_if_graded
          /\ AllGraded(Top.item)
       THEN Return
       ELSE /\ stack' = SetTop([Top EXCEPT
                   !.pc = IF env.grade_only THEN "grade" ELSE "test",
                   !.deps = IF env.grade_only THEN <<>> ELSE dependencies(Top.item)])
            /\ UNCHANGED next_item_flag
    /\ UNCHANGED <<rubric, env, grades, file, ran, todo, next_student_flag,
                   status, invoked, dep_invoked, dep_repeated, reran, warned>>
    /\ UNCHANGED <<syncVars, scoreVars, lateVars, restVars>>

\* _grade_item lines 165-168: the next dependency is graded with skip_if_graded=False
GradeDependency ==
    /\ Running /\ Top.pc = "test" /\ Top.deps # <<>>
    /\ stack' = <<Frame(Head(Top.deps), FALSE), [Top EXCEPT !.deps = Tail(@)]>> \o Tail(stack)
    /\ UNCHANGED <<rubric, env, grades, file, ran, todo, next_item_flag,
                   next_student_flag, status, invoked, dep_invoked, dep_repeated, reran, warned>>
    /\ UNCHANGED <<syncVars, scoreVars, lateVars, restVars>>

\* where _run_and_prompt goes after f() returned out
AfterTest(out) ==
    IF env.autograde_only \/ out.kind \in {"True", "list"} THEN "grade" ELSE "action"

\* TestBlocked with the warning printed and the test called all the same
TestBlockedStillRuns ==
    /\ Running /\ Top.pc = "test" /\ Top.deps = <<>>
    /\ ungraded_dependencies(Top.item) # <<>>
    /\ warned' = warned \cup {Top.item}
    /\ invoked' = invoked \cup {Top.item}
    /\ ran' = ran \cup {Top.item}
    /\ stack' = SetTop([Top EXCEPT !.autogrades = NoneResult, !.pc = AfterTest(NoneResult)])
    /\ UNCHANGED <<rubric, env, grades, file, todo, next_item_flag,
                   next_student_flag, status, dep_invoked, dep_repeated, reran>>
    /\ UNCHANGED <<syncVars, scoreVars, lateVars, restVars>>

\* _run_and_prompt calls f(): the is_graded warning of RubricItem.test_wrapper
\* returns None without calling the test
TestBlocked ==
    /\ Running /\ Top.pc = "test" /\ Top.deps = <<>>
    /\ ungraded_dependencies(Top.item) # <<>>
    /\ warned' = warned \cup {Top.item}
    /\ stack' = SetTop([Top EXCEPT !.autogrades = NoneResult, !.pc = AfterTest(NoneResult)])
    /\ UNCHANGED <<rubric, env, grades, file, ran, todo, next_item_flag,
                   next_student_flag, status, invoked, dep_invoked, dep_repeated, reran>>
    /\ UNCHANGED <<syncVars, scoreVars, lateVars, restVars>>

\* the record of an invocation of the test callback of the innermost item
Invoked ==
    /\ invoked' = invoked \cup {Top.item}
    /\ IF Top.skip_if_graded
       THEN UNCHANGED <<dep_invoked, dep_repeated>>
       ELSE /\ dep_invoked' = dep_invoked \cup {Top.item}
            /\ dep_repeated' = dep_repeated \cup ({Top.item} \cap dep_invoked)

\* _run_and_prompt calls f(): the test callback runs and returns out
TestReturns ==
    /\ Running /\ Top.pc = "test" /\ Top.deps = <<>>
    /\ ungraded_dependencies(Top.item) = <<>>
    /\ \E out \in TestResults :
          /\ Invoked
          /\ ran' = ran \cup {Top.item}
          /\ stack' = SetTop([Top EXCEPT !.autogrades = out, !.pc = AfterTest(out)])
    /\ UNCHANGED <<rubric, env, grades, file, todo, next_item_flag,
                   next_student_flag, status, reran, warned>>
    /\ UNCHANGED <<syncVars, scoreVars, lateVars, restVars>>

\* TestRaises without the try around _run_and_prompt: the exception ends the session
TestRaisesUncaught ==
    /\ Running /\ Top.pc = "test" /\ Top.deps = <<>>
    /\ ungraded_dependencies(Top.item) = <<>>
    /\ Invoked
    /\ status' = "fatal"
    /\ UNCHANGED <<rubric, env, grades, file, ran, stack, todo, next_item_flag,
                   next_student_flag, reran, warned>>
    /\ UNCHANGED <<syncVars, scoreVars, lateVars, restVars>>

\* the test callback raises: _grade_item catches it around _run_and_prompt
TestRaises ==
    /\ Running /\ Top.pc = "test" /\ Top.deps = <<>>
    /\ ungraded_dependencies(Top.item) = <<>>
    /\ Invoked
    /\ stack' = SetTop([Top EXCEPT !.raised = TRUE, !.pc = "grade"])
    /\ UNCHANGED <<rubric, env, grades, file, ran, todo, next_item_flag,
                   next_student_flag, status, reran, warned>>
    /\ UNCHANGED <<syncVars, scoreVars, lateVars, restVars>>

\* the options of the action prompt
valid_options == {"a", "s", "ni"} \cup (IF env.submitter THEN {} ELSE {"ns"})

\* _run_and_prompt lines 229-251: the operator answers the action prompt
OperatorAction ==
    /\ Running /\ Top.pc = "action"
    /\ \E usr_input \in valid_options \cup {""} :
          IF usr_input \in {"a", "s"}
          THEN /\ stack' = SetTop([Top EXCEPT !.pc = "test"])
               /\ reran' = TRUE
               /\ UNCHANGED <<next_item_flag, next_student_flag>>
          ELSE /\ stack' = SetTop([Top EXCEPT !.pc = "grade"])
               /\ next_student_flag' = (next_student_flag \/ usr_input = "ns")
               /\ next_item_flag' = (next_item_flag \/ usr_input = "ni")
               /\ UNCHANGED reran
    /\ UNCHANGED <<rubric, env, grades, file, ran, todo, status, invoked, dep_invoked, dep_repeated, warned>>
    /\ UNCHANGED <<syncVars, scoreVars, lateVars, restVars>>

\* _prompt_grade lines 265-269: autogrades is True
AwardAll(item) ==
    [code \in SubitemCodes |->
        IF code[1] = item THEN Score(TRUE, "") ELSE grades[code]]

\* AwardList with the comments of the pairs dropped
AwardListNoComments(item, l) ==
    [code \in SubitemCodes |->
        IF code[1] = item /\ code[2] <= Len(l)
        THEN Score(l[code[2]][1] = "y", "")
        ELSE grades[code]]

\* _prompt_grade lines 274-277: one (a, c) pair per subitem code
AwardList(item, l) ==
    [code \in SubitemCodes |->
        IF code[1] = item /\ code[2] <= Len(l)
        THEN Score(l[code[2]][1] = "y", l[code[2]][2])
        ELSE grades[code]]

\* _prompt_grade line 271
Misaligned(item, l) == Len(l) # NumSubitems(item)

\* GradeItemRecord with the awards of the item cleared before the first prompt
GradeItemRecordClears ==
    /\ Running /\ Top.pc = "grade"
    /\ IF ~env.test_only /\ ~next_item_flag /\ ~next_student_flag
       THEN IF Truthy(Top.autogrades)
            THEN IF Top.autogrades.kind = "True"
                 THEN /\ grades' = AwardAll(Top.item)
                      /\ file' = synchronize(grades')
                      /\ Return
                      /\ UNCHANGED status
                 ELSE IF Misaligned(Top.item, Top.autogrades.list)
                      THEN /\ status' = "fatal"
                           /\ UNCHANGED <<grades, file, stack, next_item_flag>>
                      ELSE /\ grades' = AwardList(Top.item, Top.autogrades.list)
                           /\ file' = synchronize(grades')
                           /\ Return
                           /\ UNCHANGED status
            ELSE IF ~env.autograde_only /\ NumSubitems(Top.item) > 0
                 THEN /\ stack' = SetTop([Top EXCEPT !.pc = "prompt", !.idx = 1])
                      /\ grades' = [code \in SubitemCodes |->
                                       IF code[1] = Top.item THEN Ungraded ELSE grades[code]]
                      /\ UNCHANGED <<file, next_item_flag, status>>
                 ELSE /\ file' = synchronize(grades)
                      /\ Return
                      /\ UNCHANGED <<grades, status>>
       ELSE /\ Return
            /\ UNCHANGED <<grades, file, status>>
    /\ UNCHANGED <<rubric, env, ran, todo, next_student_flag, invoked, dep_invoked, dep_repeated,
                   reran, warned>>
    /\ UNCHANGED <<syncVars, scoreVars, lateVars, restVars>>

\* GradeItemRecord without the test of env["test_only"]
GradeItemRecordInTestOnly ==
    /\ Running /\ Top.pc = "grade"
    /\ IF ~next_item_flag /\ ~next_student_flag
       THEN IF Truthy(Top.autogrades)
            THEN IF Top.autogrades.kind = "True"
                 THEN /\ grades' = AwardAll(Top.item)
                      /\ file' = synchronize(grades')
                      /\ Return
                      /\ UNCHANGED status
                 ELSE IF Misaligned(Top.item, Top.autogrades.list)
                      THEN /\ status' = "fatal"
                           /\ UNCHANGED <<grades, file, stack, next_item_flag>>
                      ELSE /\ grades' = AwardList(Top.item, Top.autogrades.list)
                           /\ file' = synchronize(grades')
                           /\ Return
                           /\ UNCHANGED status
            ELSE IF ~env.autograde_only /\ NumSubitems(Top.item) > 0
                 THEN /\ stack' = SetTop([Top EXCEPT !.pc = "prompt", !.idx = 1])
                      /\ UNCHANGED <<grades, file, next_item_flag, status>>
                 ELSE /\ file' = synchronize(grades)
                      /\ Return
                      /\ UNCHANGED <<grades, status>>
       ELSE /\ Return
            /\ UNCHANGED <<grades, file, status>>
    /\ UNCHANGED <<rubric, env, ran, todo, next_student_flag, invoked, dep_invoked, dep_repeated,
                   reran, warned>>
    /\ UNCHANGED <<syncVars, scoreVars, lateVars, restVars>>

\* _grade_item lines 190-205 with _prompt_grade up to its first prompt
GradeItemRecord ==
    /\ Running /\ Top.pc = "grade"
    /\ IF ~env.test_only /\ ~next_item_flag /\ ~next_student_flag
       THEN IF Truthy(Top.autogrades)
            THEN IF Top.autogrades.kind = "True"
                 THEN /\ grades' = AwardAll(Top.item)
                      /\ file' = synchronize(grades')
                      /\ Return
                      /\ UNCHANGED status
                 ELSE IF Misaligned(Top.item, Top.autogrades.list)
                      THEN /\ status' = "fatal"
                           /\ UNCHANGED <<grades, file, stack, next_item_flag>>
                      ELSE /\ grades' = AwardList(Top.item, Top.autogrades.list)
                           /\ file' = synchronize(grades')
                           /\ Return
                           /\ UNCHANGED status
            ELSE IF ~env.autograde_only /\ NumSubitems(Top.item) > 0
                 THEN /\ stack' = SetTop([Top EXCEPT !.pc = "prompt", !.idx = 1])
                      /\ UNCHANGED <<grades, file, next_item_flag, status>>
                 ELSE /\ file' = synchronize(grades)
                      /\ Return
                      /\ UNCHANGED <<grades, status>>
       ELSE /\ Return
            /\ UNCHANGED <<grades, file, status>>
    /\ UNCHANGED <<rubric, env, ran, todo, next_student_flag, invoked, dep_invoked, dep_repeated,
                   reran, warned>>
    /\ UNCHANGED <<syncVars, scoreVars, lateVars, restVars>>

\* OperatorGrade without the synchronize that ends _prompt_grade
OperatorGradeNoSync ==
    /\ Running /\ Top.pc = "prompt"
    /\ \E answer \in PromptAnswers :
          grades' = [grades EXCEPT ![SubitemCode(Top.item, Top.idx)] =
                        Score(answer[1] = "y", answer[2])]
    /\ IF Top.idx < NumSubitems(Top.item)
       THEN /\ stack' = SetTop([Top EXCEPT !.idx = @ + 1])
            /\ UNCHANGED <<file, next_item_flag>>
       ELSE /\ UNCHANGED file
            /\ Return
    /\ UNCHANGED <<rubric, env, ran, todo, next_student_flag, status, invoked,
                   dep_invoked, dep_repeated, reran, warned>>
    /\ UNCHANGED <<syncVars, scoreVars, lateVars, restVars>>

\* _prompt_grade lines 280-307: the operator answers the prompts of one subitem
OperatorGrade ==
    /\ Running /\ Top.pc = "prompt"
    /\ \E answer \in PromptAnswers :
          grades' = [grades EXCEPT ![SubitemCode(Top.item, Top.idx)] =
                        Score(answer[1] = "y", answer[2])]
    /\ IF Top.idx < NumSubitems(Top.item)
       THEN /\ stack' = SetTop([Top EXCEPT !.idx = @ + 1])
            /\ UNCHANGED <<file, next_item_flag>>
       ELSE /\ file' = synchronize(grades')
            /\ Return
    /\ UNCHANGED <<rubric, env, ran, todo, next_student_flag, status, invoked,
                   dep_invoked, dep_repeated, reran, warned>>
    /\ UNCHANGED <<syncVars, scoreVars, lateVars, restVars>>

(***************************************************************************)
(* Grades.synchronize, one file operation at a time (common/grades.py)     *)
(***************************************************************************)
\* the number of chunks of a document, whole or not
Size(doc) == (IF doc.open THEN 1 ELSE 0) + Len(doc.entries) + (IF doc.close THEN 1 ELSE 0)

\* the first n chunks of a document
Truncated(doc, n) ==
    [open |-> doc.open /\ n >= 1,
     entries |-> SubSeq(doc.entries, 1, IF n - 1 < Len(doc.entries) THEN n - 1 ELSE Len(doc.entries)),
     close |-> doc.close /\ n >= Size(doc)]

\* open(self.grades_file, "w") leaves an empty file
EmptyFile == [open |-> FALSE, entries |-> <<>>, close |-> FALSE]

\* json.load accepts only a whole document
Loadable(doc) == doc.open /\ doc.close

\* self.grades[subitem_code]["award"] = ..., ["comments"] = ...: no write to the file
SetAward ==
    /\ sync_pc \in {"clean", "dirty"}
    /\ \E code \in SubitemCodes, answer \in PromptAnswers :
          ledger' = [ledger EXCEPT ![code] = Score(answer[1] = "y", answer[2])]
    /\ sync_pc' = "dirty"
    /\ UNCHANGED <<grades_file, persisted>>
    /\ UNCHANGED <<sessionVars, scoreVars, lateVars, restVars>>

\* synchronize line 110: open(..., "w") truncates the file
SyncOpen ==
    /\ sync_pc \in {"clean", "dirty"}
    /\ persisted' = grades_file
    /\ grades_file' = EmptyFile
    /\ sync_pc' = "dump"
    /\ UNCHANGED ledger
    /\ UNCHANGED <<sessionVars, scoreVars, lateVars, restVars>>

\* synchronize line 112: json.dump fills the buffer of f, which writes some more of
\* the document to the file whenever it is full
SyncWrite ==
    /\ sync_pc = "dump"
    /\ \E n \in (Size(grades_file) + 1)..Size(json_dump(ledger)) :
          grades_file' = Truncated(json_dump(ledger), n)
    /\ UNCHANGED <<ledger, sync_pc, persisted>>
    /\ UNCHANGED <<sessionVars, scoreVars, lateVars, restVars>>

\* synchronize line 113: os.fsync(f.fileno()), on what the file holds by then
SyncFsync ==
    /\ sync_pc = "dump"
    /\ sync_pc' = "fsync"
    /\ UNCHANGED <<ledger, grades_file, persisted>>
    /\ UNCHANGED <<sessionVars, scoreVars, lateVars, restVars>>

\* the with block ends: f.close() writes what is left in the buffer
SyncClose ==
    /\ sync_pc = "fsync"
    /\ grades_file' = json_dump(ledger)
    /\ sync_pc' = "clean"
    /\ UNCHANGED <<ledger, persisted>>
    /\ UNCHANGED <<sessionVars, scoreVars, lateVars, restVars>>

\* the process dies inside synchronize
Crash ==
    /\ sync_pc \in {"dump", "fsync"}
    /\ sync_pc' = "crashed"
    /\ UNCHANGED <<ledger, grades_file, persisted>>
    /\ UNCHANGED <<sessionVars, scoreVars, lateVars, restVars>>

(***************************************************************************)
(* Grades._get_submission_grades (common/grades.py)                        *)
(***************************************************************************)
\* largest magnitude of the points of a subitem
MaxPts == 2
\* largest deduct_from of an item
MaxDeduct == 2

Max(a, b) == IF a >= b THEN a ELSE b

Min(a, b) == IF a <= b THEN a ELSE b

RECURSIVE SumSeq(_)
SumSeq(l) == IF l = <<>> THEN 0 ELSE Head(l) + SumSeq(Tail(l))

\* item_code.startswith(rubric_code), on the codes of the rubric scored
StartsWith(item_code, rubric_code) ==
    \/ rubric_code = item_code
    \/ rubric_code = "A"
    \/ rubric_code = "A1" /\ item_code = "A10"

\* ItemGraded with any() in place of all()
ItemGradedAny(item, scores) ==
    \E si \in 1..Len(item.subitems) : scores[SubitemCode(item.code, si)].award # "None"

\* self.is_graded(f"{item_code}.{si}", name) for every subitem of the item
ItemGraded(item, scores) ==
    \A si \in 1..Len(item.subitems) : scores[SubitemCode(item.code, si)].award # "None"

\* raw_pts = pts if applied else 0, per subitem
RawPts(item, scores) ==
    [i \in 1..Len(item.subitems) |->
        IF scores[SubitemCode(item.code, i)].award = "True" THEN item.subitems[i] ELSE 0]

\* ItemTotal without the floor of line 243
ItemTotalNoFloor(total, item, scores) ==
    LET raised == IF item.deduct_from # 0 THEN total + item.deduct_from ELSE total
        summed == raised + SumSeq(RawPts(item, scores))
    IN  IF item.deduct_from # 0 THEN Min(total + item.deduct_from, summed) ELSE summed

\* lines 201-212 and 239-243: total_pts after the item, from total_pts before it
ItemTotal(total, item, scores) ==
    LET floor_pts == total
        raised == IF item.deduct_from # 0 THEN total + item.deduct_from ELSE total
        summed == raised + SumSeq(RawPts(item, scores))
        ceiled == Min(floor_pts + item.deduct_from, summed)
    IN  IF item.deduct_from # 0 THEN Max(floor_pts, ceiled) ELSE summed

\* truthiness of ta_comments: None and "" are falsy
HasText(comments) == comments \notin {"None", ""}

\* lines 213-238: the comment of one subitem, or nothing
SubitemComments(item, i, scores) ==
    LET pts == item.subitems[i]
        applied == scores[SubitemCode(item.code, i)].award = "True"
        ta_comments == scores[SubitemCode(item.code, i)].comments
        pretty_code_name == IF Len(item.subitems) = 1 THEN <<item.code>> ELSE <<item.code, i>>
        pretty_pts == IF pts > 0 THEN pts ELSE 0 - pts
        annotated == (applied /\ pts < 0) \/ (~applied /\ pts > 0) \/ HasText(ta_comments)
        plain == ((pts >= 0) = applied) /\ HasText(ta_comments)
    IN  IF annotated
        THEN <<[name |-> pretty_code_name,
                minus |-> IF plain THEN <<>> ELSE <<pretty_pts>>,
                text |-> IF HasText(ta_comments) THEN ta_comments ELSE ""]>>
        ELSE <<>>

RECURSIVE ItemComments(_, _, _)
ItemComments(item, i, scores) ==
    IF i > Len(item.subitems) THEN <<>>
    ELSE SubitemComments(item, i, scores) \o ItemComments(item, i + 1, scores)

\* LatePercentagePenaltyPolicy.get_points_and_comments with percentage_penalty 0.2, the
\* points in hundredths: round(total_pts * (1 - 0.2), 2)
LatePoints(total, policy_data) == IF policy_data THEN total * 80 ELSE total * 100

LateComments(comments, policy_data) ==
    IF policy_data THEN <<[name |-> <<"LATE">>, minus |-> <<>>, text |-> ""]>> \o comments
    ELSE comments

\* one round of the loop over the items of the rubric
ScoreItem ==
    /\ score_pc = "loop" /\ item_idx <= Len(score_in.rubric)
    /\ LET item == score_in.rubric[item_idx]
       IN  IF score_in.rubric_code # "ALL" /\ ~StartsWith(item.code, score_in.rubric_code)
           THEN /\ item_idx' = item_idx + 1
                /\ UNCHANGED <<score_pc, total_pts, before_pts, all_comments, score_out>>
           ELSE IF ~ItemGraded(item, score_in.scores)
                THEN /\ score_pc' = "returned"
                     /\ score_out' = [graded |-> FALSE, pts |-> total_pts * 100,
                                      applied |-> 0]
                     /\ UNCHANGED <<item_idx, total_pts, before_pts, all_comments>>
                ELSE /\ total_pts' = ItemTotal(total_pts, item, score_in.scores)
                     /\ before_pts' = total_pts
                     /\ all_comments' = all_comments \o ItemComments(item, 1, score_in.scores)
                     /\ item_idx' = item_idx + 1
                     /\ UNCHANGED <<score_pc, score_out>>
    /\ UNCHANGED score_in
    /\ UNCHANGED <<sessionVars, syncVars, lateVars, restVars>>

\* ScoreReturn with the policy applied whatever rubric_code is
ScoreReturnAlwaysPolicy ==
    /\ score_pc = "loop" /\ item_idx > Len(score_in.rubric)
    /\ all_comments' = LateComments(all_comments, score_in.policy_data)
    /\ score_out' = [graded |-> TRUE,
                     pts |-> Max(LatePoints(total_pts, score_in.policy_data), 0),
                     applied |-> 1]
    /\ score_pc' = "returned"
    /\ UNCHANGED <<score_in, item_idx, total_pts, before_pts>>
    /\ UNCHANGED <<sessionVars, syncVars, lateVars, restVars>>

\* lines 245-257: the policy for ALL, the floor at zero, the tuple returned
ScoreReturn ==
    /\ score_pc = "loop" /\ item_idx > Len(score_in.rubric)
    /\ LET all == score_in.rubric_code = "ALL"
           pts == IF all THEN LatePoints(total_pts, score_in.policy_data) ELSE total_pts * 100
       IN  /\ all_comments' = IF all THEN LateComments(all_comments, score_in.policy_data)
                              ELSE all_comments
           /\ score_out' = [graded |-> TRUE, pts |-> Max(pts, 0),
                            applied |-> IF all THEN 1 ELSE 0]
    /\ score_pc' = "returned"
    /\ UNCHANGED <<score_in, item_idx, total_pts, before_pts>>
    /\ UNCHANGED <<sessionVars, syncVars, lateVars, restVars>>

(***************************************************************************)
(* LateDays (borowski_common/late_days.py), one object per grading process *)
(***************************************************************************)
\* most days late a process records
MaxLate == 2

Procs == {"ta1", "ta2"}

NoProc == "none"

Unis == {"u1", "u2"}

HWs == {"hw1", "hw2"}

\* an empty dict
EmptyDict == [k \in {} |-> {}]

\* d[k] = v on a dict
DictSet(d, k, v) == [x \in DOMAIN d \cup {k} |-> IF x = k THEN v ELSE d[x]]

\* _try_to_get_student: the dict of the student, made if absent
try_to_get_student(class_late_days, uni) ==
    IF uni \in DOMAIN class_late_days THEN class_late_days[uni] ELSE EmptyDict

\* update_late_days lines 115-118 for one student
UpdateStudent(class_late_days, uni, hw_name, days_late) ==
    LET student_late_days == try_to_get_student(class_late_days, uni)
    IN  DictSet(class_late_days, uni,
                IF hw_name \in DOMAIN student_late_days THEN student_late_days
                ELSE DictSet(student_late_days, hw_name, days_late))

RECURSIVE UpdateAll(_, _, _, _)
UpdateAll(class_late_days, submitters, hw_name, days_late) ==
    IF submitters = <<>> THEN class_late_days
    ELSE UpdateAll(UpdateStudent(class_late_days, Head(submitters), hw_name, days_late),
                   Tail(submitters), hw_name, days_late)

\* whether a process may enter `with self.lock`
LockFree(p) == lock = NoProc

\* LateDays.__init__: _load_class takes the lock
LoadLock ==
    /\ \E p \in Procs :
          /\ late[p].pc = "new"
          /\ LockFree(p)
          /\ lock' = p
          /\ late' = [late EXCEPT ![p].pc = "loading"]
    /\ UNCHANGED late_days_file
    /\ UNCHANGED <<sessionVars, syncVars, scoreVars, restVars>>

\* _load_class reads the file (an absent file is an empty dict) and releases the lock
LoadClass ==
    /\ \E p \in Procs :
          /\ late[p].pc = "loading"
          /\ late' = [late EXCEPT ![p].pc = "loaded",
                                  ![p].class_late_days =
                                      IF late_days_file.exists THEN late_days_file.content
                                      ELSE EmptyDict]
    /\ lock' = NoProc
    /\ UNCHANGED late_days_file
    /\ UNCHANGED <<sessionVars, syncVars, scoreVars, restVars>>

\* update_late_days changes class_late_days; _synchronize takes the lock
UpdateLateDays ==
    /\ \E p \in Procs :
          /\ late[p].pc = "loaded"
          /\ LockFree(p)
          /\ lock' = p
          /\ late' = [late EXCEPT ![p].pc = "writing",
                                  ![p].class_late_days =
                                      UpdateAll(@, late[p].submitters, late[p].hw_name,
                                                late[p].days_late)]
    /\ UNCHANGED late_days_file
    /\ UNCHANGED <<sessionVars, syncVars, scoreVars, restVars>>

\* _synchronize writes class_late_days to the file and releases the lock
WriteLateDays ==
    /\ \E p \in Procs :
          /\ late[p].pc = "writing"
          /\ late_days_file' = [exists |-> TRUE, content |-> late[p].class_late_days]
          /\ late' = [late EXCEPT ![p].pc = "done"]
    /\ lock' = NoProc
    /\ UNCHANGED <<sessionVars, syncVars, scoreVars, restVars>>

\* FileLock(timeout=3): the lock stays taken for 3 seconds, Timeout is raised
LockTimeout ==
    /\ \E p \in Procs :
          /\ late[p].pc \in {"new", "loaded"}
          /\ ~LockFree(p)
          /\ late' = [late EXCEPT ![p].pc = "timeout"]
    /\ UNCHANGED <<late_days_file, lock>>
    /\ UNCHANGED <<sessionVars, syncVars, scoreVars, restVars>>

(***************************************************************************)
(* Grading policies (common/grading_policies.py,                           *)
(* borowski_common/grading_policies.py). Points are in hundredths.         *)
(***************************************************************************)
\* total_pts >= 93 in GoodJobPolicy
GoodJobThreshold == 93

GOOD_JOB_PHRASES == {"Good job", "Great work", "Nice job", "Well done", "Awesome"}

\* type(grading_policy).__name__ of the policies followed
PolicyKeys == {"LatePercentagePenaltyPolicy", "PlagiarismPolicy", "GoodJobPolicy"}

\* one comment of all_comments: its text and what is formatted into it
Comment(text, arg) == [text |-> text, arg |-> arg]

\* name.split(" ")[0]
FirstName(name) == name[1]

\* the keys of a dict given as its (key, data) pairs
KeysOf(pairs) == {pairs[i][1] : i \in 1..Len(pairs)}

\* policy_data[policy_key]
Lookup(pairs, key) == pairs[CHOOSE i \in 1..Len(pairs) : pairs[i][1] = key][2]

\* round(total_pts * (1 - 0.2), 2) on hundredths (exact on the points drawn)
LatePenalty(pts) == (pts * 80 + 50) \div 100

\* what get_points_and_comments of the policy named key returns for the points
\* and comments of r: one value for each choice random.choice can make
get_points_and_comments(key, policy_data, r) ==
    IF key = "LatePercentagePenaltyPolicy"
    THEN IF policy_data
         THEN {[pts |-> LatePenalty(r.pts),
                comments |-> <<Comment("(LATE)", <<>>)>> \o r.comments]}
         ELSE {r}
    ELSE IF key = "PlagiarismPolicy"
    THEN IF policy_data # <<>>
         THEN {[pts |-> 0,
                comments |-> <<Comment("flagged for plagiarism", policy_data)>> \o r.comments]}
         ELSE {r}
    ELSE {[pts |-> r.pts,
           comments |-> r.comments
              \o (IF r.pts >= GoodJobThreshold * 100
                  THEN <<Comment(phrase,
                                 IF policy_data.student_names # <<>>
                                 THEN [i \in 1..Len(policy_data.student_names[1]) |->
                                          FirstName(policy_data.student_names[1][i])]
                                 ELSE <<>>)>>
                  ELSE <<>>)
              \o (IF policy_data.ta_name # <<>>
                  THEN <<Comment("Graded by", policy_data.ta_name)>>
                  ELSE <<>>)] : phrase \in GOOD_JOB_PHRASES}

\* the dict policy_data as a function of its keys
DataView(pairs) == [k \in KeysOf(pairs) |-> Lookup(pairs, k)]

\* what the loop of CompositeGradingPolicy.get_points_and_comments over the
\* policies of chain can return, started on r
RECURSIVE ChainOutcomes(_, _, _)
ChainOutcomes(chain, view, r) ==
    IF chain = <<>> THEN {r}
    ELSE LET key == chain[Len(chain)]
             before == ChainOutcomes(SubSeq(chain, 1, Len(chain) - 1), view, r)
         IN  UNION {IF key \in DOMAIN view
                    THEN get_points_and_comments(key, view[key], o)
                    ELSE {o} : o \in before}

\* the list the local all_comments refers to
PolicyComments == IF pol_ref = "caller" THEN pol_caller ELSE pol_fresh

\* LatePercentagePenaltyPolicy.get_points_and_comments: insert(0, ...) changes the
\* list object it was passed
ApplyLate(policy_data) ==
    IF policy_data
    THEN /\ pol_pts' = LatePenalty(pol_pts)
         /\ IF pol_ref = "caller"
            THEN /\ pol_caller' = <<Comment("(LATE)", <<>>)>> \o pol_caller
                 /\ UNCHANGED pol_fresh
            ELSE /\ pol_fresh' = <<Comment("(LATE)", <<>>)>> \o pol_fresh
                 /\ UNCHANGED pol_caller
         /\ UNCHANGED pol_ref
    ELSE UNCHANGED <<pol_pts, pol_caller, pol_fresh, pol_ref>>

\* a plagiarism policy that drops the comments it was passed
ApplyPlagiarismReplace(policy_data) ==
    IF policy_data # <<>>
    THEN /\ pol_pts' = 0
         /\ pol_fresh' = <<Comment("flagged for plagiarism", policy_data)>>
         /\ pol_ref' = "fresh"
         /\ UNCHANGED pol_caller
    ELSE UNCHANGED <<pol_pts, pol_caller, pol_fresh, pol_ref>>

\* PlagiarismPolicy.get_points_and_comments: policy_data holds the values of the
\* dict of matches
ApplyPlagiarism(policy_data) ==
    IF policy_data # <<>>
    THEN /\ pol_pts' = 0
         /\ pol_fresh' = <<Comment("flagged for plagiarism", policy_data)>> \o PolicyComments
         /\ pol_ref' = "fresh"
         /\ UNCHANGED pol_caller
    ELSE UNCHANGED <<pol_pts, pol_caller, pol_fresh, pol_ref>>

\* GoodJobPolicy.get_points_and_comments: new_comments = [*all_comments];
\* random.choice picks the phrase
ApplyGoodJob(policy_data) ==
    /\ \E phrase \in GOOD_JOB_PHRASES :
          LET first_names == [i \in 1..Len(policy_data.student_names[1]) |->
                                 FirstName(policy_data.student_names[1][i])]
              praise == IF pol_pts >= GoodJobThreshold * 100
                        THEN <<Comment(phrase, IF policy_data.student_names # <<>>
                                               THEN first_names ELSE <<>>)>>
                        ELSE <<>>
              graded_by == IF policy_data.ta_name # <<>>
                           THEN <<Comment("Graded by", policy_data.ta_name)>>
                           ELSE <<>>
          IN  pol_fresh' = PolicyComments \o praise \o graded_by
    /\ pol_ref' = "fresh"
    /\ UNCHANGED <<pol_pts, pol_caller>>

\* a loop over the keys of policy_data instead of self.grading_policies
PolicyStepMapOrder ==
    /\ pol_pc = "loop" /\ pol_idx <= Len(pol_chain)
    /\ LET policy_key == IF pol_idx <= Len(pol_data) THEN pol_data[pol_idx][1] ELSE "none"
       IN  IF policy_key \notin KeysOf(pol_data)
           THEN UNCHANGED <<pol_pts, pol_caller, pol_fresh, pol_ref>>
           ELSE IF policy_key = "LatePercentagePenaltyPolicy"
                THEN ApplyLate(Lookup(pol_data, policy_key))
                ELSE IF policy_key = "PlagiarismPolicy"
                     THEN ApplyPlagiarism(Lookup(pol_data, policy_key))
                     ELSE ApplyGoodJob(Lookup(pol_data, policy_key))
    /\ pol_idx' = pol_idx + 1
    /\ UNCHANGED <<pol_chain, pol_data, pol_orig, pol_pc, pol_out>>
    /\ UNCHANGED notPolicyVars

\* CompositeGradingPolicy.get_points_and_comments: one round of the loop over
\* self.grading_policies
PolicyStep ==
    /\ pol_pc = "loop" /\ pol_idx <= Len(pol_chain)
    /\ LET policy_key == pol_chain[pol_idx]
       IN  IF policy_key \notin KeysOf(pol_data)
           THEN UNCHANGED <<pol_pts, pol_caller, pol_fresh, pol_ref>>
           ELSE IF policy_key = "LatePercentagePenaltyPolicy"
                THEN ApplyLate(Lookup(pol_data, policy_key))
                ELSE IF policy_key = "PlagiarismPolicy"
                     THEN ApplyPlagiarism(Lookup(pol_data, policy_key))
                     ELSE ApplyGoodJob(Lookup(pol_data, policy_key))
    /\ pol_idx' = pol_idx + 1
    /\ UNCHANGED <<pol_chain, pol_data, pol_orig, pol_pc, pol_out>>
    /\ UNCHANGED notPolicyVars

\* return total_pts, all_comments
PolicyReturn ==
    /\ pol_pc = "loop" /\ pol_idx > Len(pol_chain)
    /\ pol_out' = Append(pol_out, [pts |-> pol_pts, comments |-> PolicyComments])
    /\ pol_pc' = "returned"
    /\ UNCHANGED <<pol_chain, pol_data, pol_orig, pol_caller, pol_pts, pol_ref, pol_fresh,
                   pol_idx>>
    /\ UNCHANGED notPolicyVars

\* the caller calls get_points_and_comments once more with the same points, the
\* same list object and the same policy data
PolicyCallAgain ==
    /\ pol_pc = "returned" /\ Len(pol_out) = 1
    /\ pol_pts' = pol_orig.pts
    /\ pol_ref' = "caller"
    /\ pol_fresh' = <<>>
    /\ pol_idx' = 1
    /\ pol_pc' = "loop"
    /\ UNCHANGED <<pol_chain, pol_data, pol_orig, pol_caller, pol_out>>
    /\ UNCHANGED notPolicyVars

(***************************************************************************)
(* The grades file over several grading sessions (common/grades.py,        *)
(* borowski_common/grades.py, Grader.grade).                               *)
(***************************************************************************)
LedgerNames == {"s1", "s2"}

\* sort_keys=True: the order in which json.dump writes the submitters
NameOrder == <<"s1", "s2">>

\* the items a rubric can hold, in the order of sorted(self.rubric.keys()) and
\* sorted(self.rubric[table_code].keys()); item A1 can stand under two tables
RubricCells ==
    <<[table |-> "A", item |-> "A1", subitems |-> 1],
      [table |-> "B", item |-> "A1", subitems |-> 1],
      [table |-> "B", item |-> "B1", subitems |-> 1]>>

\* sort_keys=True: the order in which json.dump writes the scores
CodeOrder == <<SubitemCode("A1", 1), SubitemCode("B1", 1)>>

\* the data a policy computes for a submission
PolicyBlobs == {"d1", "d2"}

\* a grades file that does not exist
NoFile == [exists |-> FALSE, entries |-> <<>>]

\* _grades = {}
EmptyGrades == [n \in {} |-> [scores |-> EmptyDict, policy |-> <<>>]]

\* for subitem_code in range(1, len(item.subitems) + 1): code = f"{item_code}.{subitem_code}"
CellCodes(cell) == [i \in 1..cell.subitems |-> SubitemCode(cell.item, i)]

\* the codes the loops of _get_defined_rubric_subitems and _add_submission_entry
\* visit, in their order
RECURSIVE WalkCodes(_)
WalkCodes(cells) ==
    IF cells = <<>> THEN <<>> ELSE CellCodes(Head(cells)) \o WalkCodes(Tail(cells))

\* if code in subitems: the places of the walk whose code was added before
Duplicates(walk) == {j \in 1..Len(walk) : \E i \in 1..(j - 1) : walk[i] = walk[j]}

\* the code sys.exit names: the first one found twice
FirstDuplicate(walk) == walk[CHOOSE j \in Duplicates(walk) : \A k \in Duplicates(walk) : j <= k]

\* Grades._get_defined_rubric_subitems, when it returns
defined_subitems(walk) == {walk[i] : i \in 1..Len(walk)}

\* Grades._add_submission_entry: rubric_scores
rubric_scores(walk) == [code \in {walk[i] : i \in 1..Len(walk)} |-> Ungraded]

\* a reconciliation that pops no code
AdjustKeepAll(scores, defined) ==
    [code \in DOMAIN scores \cup defined |->
        IF code \in DOMAIN scores THEN scores[code] ELSE Ungraded]

\* _load_grades: the loop over defined_subitems.symmetric_difference(present_subitems)
Adjust(scores, defined) ==
    [code \in defined |-> IF code \in DOMAIN scores THEN scores[code] ELSE Ungraded]

\* json.dump(self._grades, f, indent=4, sort_keys=True)
dump_grades(g) ==
    LET names == SelectSeqBy(NameOrder, DOMAIN g)
    IN  [i \in 1..Len(names) |->
           LET codes == SelectSeqBy(CodeOrder, DOMAIN g[names[i]].scores)
           IN  [name |-> names[i],
                scores |-> [j \in 1..Len(codes) |->
                              [code |-> codes[j], score |-> g[names[i]].scores[codes[j]]]],
                policy |-> g[names[i]].policy]]

\* json.load(f)
load_grades(entries) ==
    [n \in {entries[i].name : i \in 1..Len(entries)} |->
        LET e == entries[CHOOSE i \in 1..Len(entries) : entries[i].name = n]
        IN  [scores |-> [code \in {e.scores[j].code : j \in 1..Len(e.scores)} |->
                            e.scores[CHOOSE j \in 1..Len(e.scores) : e.scores[j].code = code].score],
             policy |-> e.policy]]

\* self._grades of the running session: every change is followed by synchronize
Memory == load_grades(lg_file.entries)

\* Grades.synchronize
Synchronize(g) == lg_file' = [exists |-> TRUE, entries |-> dump_grades(g)]

\* Grades._load_grades
LoadGrades(walk) ==
    IF ~lg_file.exists THEN EmptyGrades
    ELSE LET loaded == load_grades(lg_file.entries)
         IN  [n \in DOMAIN loaded |->
                [loaded[n] EXCEPT !.scores = Adjust(@, defined_subitems(walk))]]

\* Grades.__init__ after _load_grades
WithSubmitter(g, name, walk) ==
    IF name \notin DOMAIN g
    THEN DictSet(g, name, [scores |-> rubric_scores(walk), policy |-> <<>>])
    ELSE g

\* BorowskiGrades.__init__ after super().__init__: the pops
Pruned(g, submissions) == [n \in DOMAIN g \cap submissions |-> g[n]]

\* a constructor that pops nothing
ConstructKeepAll(kind, name, mode, cells, submissions) ==
    /\ lg_pc = "idle"
    /\ lg_kind' = kind /\ lg_mode' = mode /\ lg_submitter' = name /\ lg_rubric' = cells
    /\ lg_prev' = lg_file
    /\ lg_computed' = FALSE
    /\ lg_submissions' = (IF kind = "BorowskiGrades" THEN submissions ELSE {})
    /\ LET walk == WalkCodes(cells)
       IN  IF lg_file.exists /\ Duplicates(walk) # {}
           THEN /\ lg_pc' = "fatal"
                /\ lg_fatal' = <<FirstDuplicate(walk)>>
                /\ UNCHANGED lg_file
           ELSE /\ lg_pc' = "constructed"
                /\ lg_fatal' = <<>>
                /\ Synchronize(WithSubmitter(LoadGrades(walk), name, walk))
    /\ UNCHANGED notLedgerVars

\* Grades.__init__ or BorowskiGrades.__init__, whole, as create_grades calls it
\* at the start of a session
Construct(kind, name, mode, cells, submissions) ==
    /\ lg_pc = "idle"
    /\ lg_kind' = kind /\ lg_mode' = mode /\ lg_submitter' = name /\ lg_rubric' = cells
    /\ lg_prev' = lg_file
    /\ lg_computed' = FALSE
    /\ lg_submissions' = (IF kind = "BorowskiGrades" THEN submissions ELSE {})
    /\ LET walk == WalkCodes(cells)
           made == WithSubmitter(LoadGrades(walk), name, walk)
       IN  IF lg_file.exists /\ Duplicates(walk) # {}
           THEN /\ lg_pc' = "fatal"
                /\ lg_fatal' = <<FirstDuplicate(walk)>>
                /\ UNCHANGED lg_file
           ELSE /\ lg_pc' = "constructed"
                /\ lg_fatal' = <<>>
                /\ Synchronize(IF kind = "BorowskiGrades" THEN Pruned(made, submissions)
                               ELSE made)
    /\ UNCHANGED notLedgerVars

\* self._grades[self.submitter] raises KeyError
NoEntryOfSubmitter == lg_submitter \notin DOMAIN Memory

\* "grading_policy" in self._grades[self.submitter]
are_grading_policies_applied == Memory[lg_submitter].policy # <<>>

\* the entry of the submitter with the policy data stored in it
save_grading_policies_data(data) ==
    [Memory EXCEPT ![lg_submitter].policy = <<data>>]

\* an enforce_grading_policy that computes and stores whatever is stored
EnforceGradingPolicyAlways(data) ==
    /\ lg_pc \in {"constructed", "grading"}
    /\ IF NoEntryOfSubmitter
       THEN /\ lg_pc' = "error"
            /\ lg_computed' = FALSE
            /\ UNCHANGED lg_file
       ELSE /\ lg_computed' = TRUE
            /\ Synchronize([Memory EXCEPT ![lg_submitter].policy = <<data>>])
            /\ UNCHANGED lg_pc
    /\ UNCHANGED <<lg_kind, lg_mode, lg_submitter, lg_rubric, lg_prev, lg_fatal,
                   lg_submissions>>
    /\ UNCHANGED notLedgerVars

\* Grades.enforce_grading_policy; data is what enforce_policy(hw_tester) returns
EnforceGradingPolicy(data) ==
    /\ lg_pc \in {"constructed", "grading"}
    /\ IF NoEntryOfSubmitter
       THEN /\ lg_pc' = "error"
            /\ lg_computed' = FALSE
            /\ UNCHANGED lg_file
       ELSE IF Memory[lg_submitter].policy = <<>>
            THEN /\ lg_computed' = TRUE
                 /\ Synchronize([Memory EXCEPT ![lg_submitter].policy = <<data>>])
                 /\ UNCHANGED lg_pc
            ELSE /\ lg_computed' = FALSE
                 /\ UNCHANGED <<lg_file, lg_pc>>
    /\ UNCHANGED <<lg_kind, lg_mode, lg_submitter, lg_rubric, lg_prev, lg_fatal,
                   lg_submissions>>
    /\ UNCHANGED notLedgerVars

\* Grader.grade up to the grading of items; data is what
\* hw_tester.get_grading_policy_data() returns
GradeStart(data) ==
    /\ lg_pc = "constructed"
    /\ IF NoEntryOfSubmitter
       THEN /\ lg_pc' = "error"
            /\ lg_computed' = FALSE
            /\ UNCHANGED lg_file
       ELSE /\ lg_pc' = "grading"
            /\ IF ~are_grading_policies_applied
               THEN /\ lg_computed' = TRUE
                    /\ Synchronize(save_grading_policies_data(data))
               ELSE /\ lg_computed' = FALSE
                    /\ UNCHANGED lg_file
    /\ UNCHANGED <<lg_kind, lg_mode, lg_submitter, lg_rubric, lg_prev, lg_fatal,
                   lg_submissions>>
    /\ UNCHANGED notLedgerVars

\* Grader._grade_item and _prompt_grade for one item of the rubric: every subitem
\* gets the award, then synchronize
GradeCell(cell, award) ==
    /\ lg_pc = "grading" /\ lg_mode # "test_only"
    /\ LET codes == CellCodes(cell)
           mine == Memory[lg_submitter].scores
       IN  /\ lg_mode = "regrade" \/ \E i \in 1..Len(codes) : mine[codes[i]].award = "None"
           /\ Synchronize([Memory EXCEPT ![lg_submitter].scores =
                             [code \in DOMAIN mine |->
                                 IF code \in {codes[i] : i \in 1..Len(codes)}
                                 THEN Score(award, "c") ELSE mine[code]]])
    /\ lg_computed' = FALSE
    /\ UNCHANGED <<lg_pc, lg_kind, lg_mode, lg_submitter, lg_rubric, lg_prev, lg_fatal,
                   lg_submissions>>
    /\ UNCHANGED notLedgerVars

\* the process of the session ends
EndSession ==
    /\ lg_pc \in {"constructed", "grading", "fatal", "error"}
    /\ lg_pc' = "idle"
    /\ lg_kind' = "Grades" /\ lg_mode' = "grade" /\ lg_submitter' = "" /\ lg_rubric' = <<>>
    /\ lg_prev' = NoFile /\ lg_fatal' = <<>> /\ lg_computed' = FALSE /\ lg_submissions' = {}
    /\ UNCHANGED lg_file
    /\ UNCHANGED notLedgerVars

(***************************************************************************)
(* Rubric.__init__ (common/rubric.py): the items are created in document   *)
(* order, each with its depends_on lists resolved when it is created.      *)
(***************************************************************************)
\* the longest depends_on list of a rubric document
MaxKeys == 1

\* the items of the rubric documents, by table
DocItems == [A |-> <<"A1", "A2">>, B |-> <<"B1">>]

\* the keys a depends_on list can hold
DependencyKeys == {"ALL", "A", "B", "A1", "B1"}

\* key[0]
DocTableOf(key) == IF key \in {"A", "A1", "A2"} THEN "A" ELSE "B"

\* self._rubric.keys() when the item at idx is created: its own table is in it
TablesCreated(idx) == {rl_doc[i].table : i \in 1..idx}

\* the items of self._rubric[table], in the order of their creation
CreatedIn(table) ==
    LET RECURSIVE Pick(_)
        Pick(l) == IF l = <<>> THEN <<>>
                   ELSE IF Head(l).table = table THEN <<Head(l).code>> \o Pick(Tail(l))
                   ELSE Pick(Tail(l))
    IN  Pick(rl_rubric)

\* ResolveKey with "ALL" resolved over the whole document, the items not yet
\* created included
ResolveKeyWholeDocument(key, idx) ==
    IF key = "ALL"
    THEN [raised |-> "", items |-> [i \in 1..Len(rl_doc) |-> rl_doc[i].code]]
    ELSE IF key \in {"A", "B"}
    THEN IF key \notin TablesCreated(idx)
         THEN [raised |-> "Rubric table not found", items |-> <<>>]
         ELSE [raised |-> "", items |-> CreatedIn(key)]
    ELSE IF \/ DocTableOf(key) \notin TablesCreated(idx)
            \/ \A i \in 1..Len(rl_rubric) : rl_rubric[i].code # key
         THEN [raised |-> "Rubric item not found", items |-> <<>>]
         ELSE [raised |-> "", items |-> <<key>>]

\* Rubric._create_dependencies_list: what one key adds to depends_on, or the
\* exception it raises
ResolveKey(key, idx) ==
    IF key = "ALL"
    THEN [raised |-> "", items |-> [i \in 1..Len(rl_rubric) |-> rl_rubric[i].code]]
    ELSE IF key \in {"A", "B"}
    THEN IF key \notin TablesCreated(idx)
         THEN [raised |-> "Rubric table not found", items |-> <<>>]
         ELSE [raised |-> "", items |-> CreatedIn(key)]
    ELSE IF \/ DocTableOf(key) \notin TablesCreated(idx)
            \/ \A i \in 1..Len(rl_rubric) : rl_rubric[i].code # key
         THEN [raised |-> "Rubric item not found", items |-> <<>>]
         ELSE [raised |-> "", items |-> <<key>>]

\* Rubric._create_dependencies_list: the loop over depends_on_codes
RECURSIVE create_dependencies_list(_, _)
create_dependencies_list(keys, idx) ==
    IF keys = <<>> THEN [raised |-> "", items |-> <<>>]
    ELSE LET first == ResolveKey(Head(keys), idx)
             rest == create_dependencies_list(Tail(keys), idx)
         IN  IF first.raised # "" THEN first
             ELSE IF rest.raised # "" THEN rest
             ELSE [raised |-> "", items |-> first.items \o rest.items]

\* Rubric.__init__: one round of the loops over the tables and their items
CreateItem ==
    /\ rl_pc = "loading" /\ rl_idx <= Len(rl_doc)
    /\ LET item == rl_doc[rl_idx]
           has_ran == create_dependencies_list(item.has_ran, rl_idx)
           graded == create_dependencies_list(item.is_graded, rl_idx)
       IN  IF has_ran.raised # "" \/ graded.raised # ""
           THEN /\ rl_pc' = "raised"
                /\ rl_error' = (IF has_ran.raised # "" THEN has_ran.raised
                                ELSE graded.raised)
                /\ UNCHANGED <<rl_rubric, rl_idx>>
           ELSE /\ rl_rubric' = Append(rl_rubric, [table |-> item.table, code |-> item.code,
                                                   keys |-> item.has_ran,
                                                   has_ran |-> has_ran.items,
                                                   is_graded |-> graded.items])
                /\ rl_idx' = rl_idx + 1
                /\ UNCHANGED <<rl_pc, rl_error>>
    /\ UNCHANGED rl_doc
    /\ UNCHANGED notLoadVars

\* Rubric.__init__ returns
RubricLoaded ==
    /\ rl_pc = "loading" /\ rl_idx > Len(rl_doc)
    /\ rl_pc' = "loaded"
    /\ UNCHANGED <<rl_doc, rl_idx, rl_rubric, rl_error>>
    /\ UNCHANGED notLoadVars

(***************************************************************************)
(* LateDaysPolicy.get_late_status (borowski_common/grading_policies.py) on *)
(* the LateDays objects one process constructs.                            *)
(***************************************************************************)
\* the budget of late days the environment configures
TOTAL_LATE_DAYS == 3

\* the default of the parameter late_days_allowed
late_days_allowed == 2

\* the LateDays objects the process keeps across calls
Objects == {"o1"}

\* the slot of an object not constructed yet
NoObject == [live |-> FALSE, hw_name |-> "", submitters |-> <<>>, class_late_days |-> EmptyDict]

\* sum(student_late_days.values())
RECURSIVE SumValues(_)
SumValues(d) ==
    IF DOMAIN d = {} THEN 0
    ELSE LET k == CHOOSE x \in DOMAIN d : TRUE
         IN  d[k] + SumValues([x \in DOMAIN d \ {k} |-> d[x]])

\* _student_has_late_days without the days of a homework not recorded yet
student_has_late_days_now(student_late_days, hw_name, days_late) ==
    SumValues(student_late_days) <= TOTAL_LATE_DAYS

\* LateDays._student_has_late_days on the dict of the student
student_has_late_days(student_late_days, hw_name, days_late) ==
    LET late_sum == SumValues(student_late_days)
                    + (IF hw_name \notin DOMAIN student_late_days THEN days_late ELSE 0)
    IN  late_sum <= TOTAL_LATE_DAYS

\* LateDays.has_late_days: all() stops at the first student without late days;
\* _try_to_get_student gives every student it visits a dict in class_late_days
RECURSIVE has_late_days(_, _, _, _)
has_late_days(class_late_days, submitters, hw_name, days_late) ==
    IF submitters = <<>> THEN [all |-> TRUE, class_late_days |-> class_late_days]
    ELSE LET uni == Head(submitters)
             visited == DictSet(class_late_days, uni, try_to_get_student(class_late_days, uni))
         IN  IF student_has_late_days(visited[uni], hw_name, days_late)
             THEN has_late_days(visited, Tail(submitters), hw_name, days_late)
             ELSE [all |-> FALSE, class_late_days |-> visited]

\* the groups of submitters of the LateDays objects
Groups == {<<"u1">>, <<"u2">>, <<"u1", "u2">>}

\* LateDays.__init__: _load_class reads the file, an absent file is an empty dict
LateDays(hw_name, submitters) ==
    [live |-> TRUE, hw_name |-> hw_name, submitters |-> submitters,
     class_late_days |-> IF ld_file.exists THEN ld_file.content ELSE EmptyDict]

\* LateDaysPolicy.get_late_status(deadline, submission, late_days), the submission
\* days_late days after the deadline (0: in time): the status it returns, the
\* class_late_days of the object after it, and whether _synchronize wrote them
get_late_status(late_days, days_late) ==
    LET has == has_late_days(late_days.class_late_days, late_days.submitters,
                             late_days.hw_name, days_late)
        updated == UpdateAll(has.class_late_days, late_days.submitters,
                             late_days.hw_name, days_late)
    IN  IF days_late <= 0
        THEN [status |-> "OK", class_late_days |-> late_days.class_late_days, written |-> FALSE]
        ELSE IF days_late > late_days_allowed
        THEN [status |-> "TOO_LATE", class_late_days |-> late_days.class_late_days,
              written |-> FALSE]
        ELSE IF ~has.all
        THEN [status |-> "NO_LATE_DAYS", class_late_days |-> has.class_late_days,
              written |-> FALSE]
        ELSE [status |-> "OK", class_late_days |-> updated, written |-> TRUE]

\* the process constructs a LateDays object and keeps it
NewLateDays ==
    /\ \E o \in Objects, hw_name \in HWs, submitters \in Groups :
          ld_objects' = [ld_objects EXCEPT ![o] = LateDays(hw_name, submitters)]
    /\ UNCHANGED <<ld_file, ld_status>>
    /\ UNCHANGED notBudgetVars

\* get_late_status on an object constructed earlier, whole
GetLateStatus ==
    /\ \E o \in Objects, days_late \in 0..(late_days_allowed + 1) :
          /\ ld_objects[o].live
          /\ LET out == get_late_status(ld_objects[o], days_late)
             IN  /\ ld_status' = out.status
                 /\ ld_objects' = [ld_objects EXCEPT ![o].class_late_days = out.class_late_days]
                 /\ ld_file' = IF out.written
                               THEN [exists |-> TRUE, content |-> out.class_late_days]
                               ELSE ld_file
    /\ UNCHANGED notBudgetVars

\* get_late_status on an object constructed for the call and dropped after it
GetLateStatusOfNew ==
    /\ \E hw_name \in HWs, submitters \in Groups, days_late \in 0..(late_days_allowed + 1) :
          LET out == get_late_status(LateDays(hw_name, submitters), days_late)
          IN  /\ ld_status' = out.status
              /\ ld_file' = IF out.written
                            THEN [exists |-> TRUE, content |-> out.class_late_days]
                            ELSE ld_file
    /\ UNCHANGED ld_objects
    /\ UNCHANGED notBudgetVars

(***************************************************************************)
(* The sessions checked.                                                   *)
(***************************************************************************)
NoDuplicates(l) == \A i, j \in 1..Len(l) : i # j => l[i] # l[j]

\* has_ran lists _create_dependencies_list can resolve for an item
HasRanLists(item) ==
    {l \in SeqsUpTo(DeclaredBefore(item), Cardinality(DeclaredBefore(item))) : NoDuplicates(l)}

\* is_graded lists _create_dependencies_list can resolve for an item
IsGradedLists(item) == {<<>>} \cup (IF item = "A2" THEN {<<"A1">>} ELSE {})

Rubrics ==
    [Items -> [has_ran : UNION {HasRanLists(i) : i \in Items},
               is_graded : UNION {IsGradedLists(i) : i \in Items}]]

WellFormedRubric(r) ==
    \A item \in Items :
        /\ r[item].has_ran \in HasRanLists(item)
        /\ r[item].is_graded \in IsGradedLists(item)

Codes == {"ALL", "A2", "B1", "C", "A3", "C1"}

\* the flags the argument parser lets through: -g and -t exclude each other
Envs ==
    {e \in [test_only : BOOLEAN, grade_only : BOOLEAN, regrade : BOOLEAN,
            autograde_only : BOOLEAN, submitter : BOOLEAN, code : Codes] :
        ~(e.test_only /\ e.grade_only)}

\* ledgers earlier sessions can have left
Ledgers ==
    {l \in [SubitemCodes -> {Ungraded, Score(TRUE, "")}] :
        \A c, d \in SubitemCodes : c[1] = d[1] => l[c] = l[d]}

\* no synchronize is followed step by step
SyncIdle ==
    /\ ledger = NewEntry
    /\ grades_file = json_dump(NewEntry)
    /\ sync_pc = "clean"
    /\ persisted = grades_file

\* no _get_submission_grades is followed
ScoreIdle ==
    /\ score_in = <<>>
    /\ score_pc = "returned"
    /\ item_idx = 0
    /\ total_pts = 0
    /\ before_pts = 0
    /\ all_comments = <<>>
    /\ score_out = <<>>

\* no LateDays process runs
LateIdle ==
    /\ late_days_file = [exists |-> FALSE, content |-> EmptyDict]
    /\ lock = NoProc
    /\ late = <<>>

\* no get_points_and_comments is followed
PolicyIdle ==
    /\ pol_chain = <<>>
    /\ pol_data = <<>>
    /\ pol_orig = <<>>
    /\ pol_caller = <<>>
    /\ pol_pts = 0
    /\ pol_ref = "caller"
    /\ pol_fresh = <<>>
    /\ pol_idx = 0
    /\ pol_pc = "returned"
    /\ pol_out = <<>>

\* none of the added parts runs
LedgerIdle ==
    /\ lg_file = NoFile /\ lg_pc = "idle" /\ lg_kind = "Grades" /\ lg_mode = "grade"
    /\ lg_submitter = "" /\ lg_rubric = <<>> /\ lg_prev = NoFile /\ lg_fatal = <<>>
    /\ lg_computed = FALSE /\ lg_submissions = {}

LoadIdle ==
    /\ rl_doc = <<>> /\ rl_idx = 0 /\ rl_rubric = <<>> /\ rl_pc = "loaded" /\ rl_error = ""

\* Grader.grade has raised no ValueError
ErrorIdle == error = <<>>

\* no LateDays object exists
BudgetIdle ==
    /\ ld_file = [exists |-> FALSE, content |-> EmptyDict]
    /\ ld_objects = <<>>
    /\ ld_status = "none"

RestIdle == PolicyIdle /\ LedgerIdle /\ LoadIdle /\ ErrorIdle /\ BudgetIdle

\* no grading session runs
SessionIdle ==
    /\ rubric = <<>>
    /\ env = <<>>
    /\ grades = NewEntry
    /\ file = synchronize(grades)
    /\ ran = {}
    /\ stack = <<>>
    /\ todo = <<>>
    /\ next_item_flag = FALSE
    /\ next_student_flag = FALSE
    /\ status = "done"
    /\ invoked = {}
    /\ dep_invoked = {}
    /\ dep_repeated = {}
    /\ reran = FALSE
    /\ warned = {}

Init ==
    /\ SyncIdle /\ ScoreIdle /\ LateIdle /\ RestIdle
    /\ rubric \in {r \in Rubrics : WellFormedRubric(r)}
    /\ env \in Envs
    /\ grades \in Ledgers
    /\ file = synchronize(grades)
    /\ ran = {}
    /\ stack = <<>>
    /\ todo = <<>>
    /\ next_item_flag = FALSE
    /\ next_student_flag = FALSE
    /\ status = "idle"
    /\ invoked = {}
    /\ dep_invoked = {}
    /\ dep_repeated = {}
    /\ reran = FALSE
    /\ warned = {}

Next ==
    \/ Grade
    \/ GradeNextItem
    \/ GradeDone
    \/ GradeItemEnter
    \/ GradeDependency
    \/ TestBlocked
    \/ TestReturns
    \/ TestRaises
    \/ OperatorAction
    \/ GradeItemRecord
    \/ OperatorGrade

Spec == Init /\ [][Next]_vars

(***************************************************************************)
(* A process that changes awards and synchronizes, and may crash.          *)
(***************************************************************************)
InitSync ==
    /\ SessionIdle /\ ScoreIdle /\ LateIdle /\ RestIdle
    /\ ledger \in Ledgers
    /\ grades_file = json_dump(ledger)
    /\ sync_pc = "clean"
    /\ persisted = grades_file

NextSync ==
    \/ SetAward
    \/ SyncOpen
    \/ SyncWrite
    \/ SyncFsync
    \/ SyncClose
    \/ Crash

SpecSync == InitSync /\ [][NextSync]_vars

(***************************************************************************)
(* _get_submission_grades on every small rubric and ledger.                *)
(***************************************************************************)
Points == (0 - MaxPts)..MaxPts

\* rubrics of table A with the items A1 (one subitem) and A10 (two subitems)
ScoreRubrics ==
    {<<[code |-> "A1", deduct_from |-> d1, subitems |-> <<p1>>],
       [code |-> "A10", deduct_from |-> d2, subitems |-> <<p2, p3>>]>> :
        d1 \in 0..MaxDeduct, d2 \in 0..MaxDeduct, p1 \in Points, p2 \in Points, p3 \in Points}

ScoreCodes == {SubitemCode("A1", 1), SubitemCode("A10", 1), SubitemCode("A10", 2)}

ScoreLedgers == [ScoreCodes -> {Ungraded, Score(TRUE, ""), Score(FALSE, "c")}]

InitScore ==
    /\ SessionIdle /\ SyncIdle /\ LateIdle /\ RestIdle
    /\ score_in \in [rubric : ScoreRubrics, scores : ScoreLedgers,
                      rubric_code : {"ALL", "A", "A1", "A10"}, policy_data : BOOLEAN]
    /\ score_pc = "loop"
    /\ item_idx = 1
    /\ total_pts = 0
    /\ before_pts = 0
    /\ all_comments = <<>>
    /\ score_out = <<>>

NextScore ==
    \/ ScoreItem
    \/ ScoreReturn

SpecScore == InitScore /\ [][NextScore]_vars

(***************************************************************************)
(* Grading processes that each construct LateDays and call                 *)
(* update_late_days.                                                       *)
(***************************************************************************)
LateProcesses ==
    [pc : {"new"}, hw_name : HWs, submitters : {<<"u1">>, <<"u2">>, <<"u1", "u2">>},
     days_late : 1..MaxLate, class_late_days : {EmptyDict}]

LateFiles ==
    {[exists |-> FALSE, content |-> EmptyDict],
     [exists |-> TRUE, content |-> EmptyDict],
     [exists |-> TRUE, content |-> DictSet(EmptyDict, "u1", DictSet(EmptyDict, "hw1", 1))]}

InitLate ==
    /\ SessionIdle /\ SyncIdle /\ ScoreIdle /\ RestIdle
    /\ late_days_file \in LateFiles
    /\ lock = NoProc
    /\ late \in [Procs -> LateProcesses]

NextLate ==
    \/ LoadLock
    \/ LoadClass
    \/ UpdateLateDays
    \/ WriteLateDays
    \/ LockTimeout

SpecLate == InitLate /\ [][NextLate]_vars

(***************************************************************************)
(* get_points_and_comments of every small chain, called twice.             *)
(***************************************************************************)
PolicyChains == {l \in SeqsUpTo(PolicyKeys, Cardinality(PolicyKeys)) : NoDuplicates(l)}

\* the data enforce_policy stores for a policy
PolicyDataOf(key) ==
    IF key = "LatePercentagePenaltyPolicy" THEN BOOLEAN
    ELSE IF key = "PlagiarismPolicy" THEN {<<>>, <<"report1">>, <<"report1", "report2">>}
    ELSE [ta_name : {<<>>, <<"ta">>}, student_names : {<<>>, <<<<<<"Ann", "Lee">>>>>>}]

\* the policy_data dicts: some of the keys, in any order, each with its data
PolicyDicts ==
    UNION {{d \in [1..Len(keys) -> UNION {{<<k, v>> : v \in PolicyDataOf(k)} : k \in PolicyKeys}] :
               \A i \in 1..Len(keys) : d[i][1] = keys[i]} : keys \in PolicyChains}

PolicyPoints == {0, (GoodJobThreshold - 1) * 100, GoodJobThreshold * 100, 10000}

PolicyCommentLists == {<<>>, <<Comment("c", <<>>)>>}

InitPolicy ==
    /\ SessionIdle /\ SyncIdle /\ ScoreIdle /\ LateIdle /\ LedgerIdle /\ LoadIdle /\ ErrorIdle
    /\ BudgetIdle
    /\ pol_chain \in PolicyChains
    /\ pol_data \in PolicyDicts
    /\ pol_orig \in [pts : PolicyPoints, comments : PolicyCommentLists]
    /\ pol_caller = pol_orig.comments
    /\ pol_pts = pol_orig.pts
    /\ pol_ref = "caller"
    /\ pol_fresh = <<>>
    /\ pol_idx = 1
    /\ pol_pc = "loop"
    /\ pol_out = <<>>

NextPolicy ==
    \/ PolicyStep
    \/ PolicyReturn
    \/ PolicyCallAgain

SpecPolicy == InitPolicy /\ [][NextPolicy]_vars

(***************************************************************************)
(* Grading sessions one after the other on one grades file.                *)
(***************************************************************************)
LedgerRubrics ==
    {SelectSeqBy(RubricCells, S) :
        S \in SUBSET {RubricCells[i] : i \in 1..Len(RubricCells)}} \ {<<>>}

InitLedger ==
    /\ SessionIdle /\ SyncIdle /\ ScoreIdle /\ LateIdle /\ PolicyIdle /\ LoadIdle /\ ErrorIdle
    /\ BudgetIdle
    /\ LedgerIdle

NextLedger ==
    \/ \E kind \in {"Grades", "BorowskiGrades"}, name \in LedgerNames,
          mode \in {"grade", "regrade", "test_only"}, cells \in LedgerRubrics,
          submissions \in SUBSET LedgerNames :
          Construct(kind, name, mode, cells, submissions)
    \/ \E data \in PolicyBlobs : EnforceGradingPolicy(data)
    \/ \E data \in PolicyBlobs : GradeStart(data)
    \/ \E i \in 1..Len(lg_rubric), award \in BOOLEAN : GradeCell(lg_rubric[i], award)
    \/ EndSession

SpecLedger == InitLedger /\ [][NextLedger]_vars

(***************************************************************************)
(* Loading every small rubric document.                                    *)
(***************************************************************************)
\* the tables of a document in either order, each with its items
DocOrders == {<<"A", "B">>, <<"B", "A">>}

DocCodes(order) == DocItems[order[1]] \o DocItems[order[2]]

\* the is_graded lists of the documents
GradedKeys == {<<>>, <<"ALL">>, <<"A1">>}

\* the document of the tables in the given order, its items holding the keys
RubricDoc(order, keys, graded) ==
    [i \in 1..Len(DocCodes(order)) |->
        [table |-> DocTableOf(DocCodes(order)[i]), code |-> DocCodes(order)[i],
         has_ran |-> keys[i], is_graded |-> graded[i]]]

InitLoad ==
    /\ SessionIdle /\ SyncIdle /\ ScoreIdle /\ LateIdle /\ PolicyIdle /\ LedgerIdle /\ ErrorIdle
    /\ BudgetIdle
    /\ \E order \in DocOrders :
          \E keys \in [1..Len(DocCodes(order)) -> SeqsUpTo(DependencyKeys, MaxKeys)] :
              \E graded \in [1..Len(DocCodes(order)) -> GradedKeys] :
                  rl_doc = RubricDoc(order, keys, graded)
    /\ rl_idx = 1
    /\ rl_rubric = <<>>
    /\ rl_pc = "loading"
    /\ rl_error = ""

NextLoad ==
    \/ CreateItem
    \/ RubricLoaded

SpecLoad == InitLoad /\ [][NextLoad]_vars

(***************************************************************************)
(* One process with its LateDays objects, over every late days record      *)
(* within the budget.                                                      *)
(***************************************************************************)
\* the dicts of one student: some homeworks, each with 1..TOTAL_LATE_DAYS days
StudentRecords ==
    UNION {[hws -> 1..TOTAL_LATE_DAYS] : hws \in SUBSET HWs}

\* every student of the record is within the budget
WithinBudget(class_late_days) ==
    \A uni \in DOMAIN class_late_days :
        SumValues(class_late_days[uni]) <= TOTAL_LATE_DAYS

InitBudget ==
    /\ SessionIdle /\ SyncIdle /\ ScoreIdle /\ LateIdle /\ PolicyIdle /\ LedgerIdle
    /\ LoadIdle /\ ErrorIdle
    /\ \E unis \in SUBSET Unis :
          \E content \in [unis -> StudentRecords] :
              /\ WithinBudget(content)
              /\ ld_file \in {[exists |-> TRUE, content |-> content]}
                            \cup (IF unis = {} THEN {[exists |-> FALSE, content |-> EmptyDict]}
                                  ELSE {})
    /\ ld_objects = [o \in Objects |-> NoObject]
    /\ ld_status = "none"

NextBudget ==
    \/ NewLateDays
    \/ GetLateStatus
    \/ GetLateStatusOfNew

SpecBudget == InitBudget /\ [][NextBudget]_vars

(***************************************************************************)
(* Properties of the grading session (Spec).                               *)
(***************************************************************************)
\* the has_ran dependencies of an item, as a set
HasRanOf(X) == {rubric[X].has_ran[i] : i \in 1..Len(rubric[X].has_ran)}

\* C1: in a session that runs tests, the test callback of an item X has been invoked
\* only if the test callback of every has_ran dependency Y of X has been invoked
\* in the session (Y's invocation comes first, the dependencies being graded
\* before X's test starts)
C1_DependencyInvokedFirst ==
    \A X \in invoked : \A Y \in HasRanOf(X) : Y \in invoked

\* C2: as long as the operator never asked for a re-run, dependency resolution has
\* invoked the test callback of no item more than once in the session
C2_DependencyInvokedOnce ==
    ~reran => dep_repeated = {}

\* the item at the top was selected by the rubric code and is fully graded, and
\* neither regrade nor test-only is set
SkipCase ==
    /\ Running /\ Top.pc = "enter"
    /\ Top.skip_if_graded
    /\ ~env.regrade /\ ~env.test_only
    /\ AllGraded(Top.item)

\* C3: grading a fully graded item selected by the rubric code, with neither
\* regrade nor test-only, returns at once: no test callback is invoked, no warning
\* or prompt is reached, and the ledger in memory and on disk is unchanged
C3_GradedItemSkipped ==
    [][SkipCase =>
          /\ stack' = Tail(stack)
          /\ grades' = grades /\ file' = file
          /\ invoked' = invoked /\ ran' = ran /\ warned' = warned
          /\ status' = status]_vars

\* a session on the graded item A2 that ended without a test or a change
C3_Witness ==
    /\ status = "done"
    /\ env.code = "A2" /\ ~env.regrade /\ ~env.test_only /\ ~env.grade_only
    /\ AllGraded("A2")
    /\ invoked = {} /\ warned = {}
    /\ file = synchronize(grades)

(***************************************************************************)
(* Properties of _get_submission_grades (SpecScore).                       *)
(***************************************************************************)
\* the items the loop has added to total_pts so far
Added ==
    {i \in 1..(item_idx - 1) :
        \/ score_in.rubric_code = "ALL"
        \/ StartsWith(score_in.rubric[i].code, score_in.rubric_code)}

LastAdded == CHOOSE i \in Added : \A j \in Added : j <= i

\* C4: the contribution of a deductive item with ceiling C > 0 to the running total
\* (total_pts after the item minus total_pts before it) lies in [0, C], whatever
\* the points and awards of its subitems
C4_DeductiveContribution ==
    Added # {} =>
        LET item == score_in.rubric[LastAdded]
        IN  item.deduct_from > 0 =>
                /\ total_pts - before_pts >= 0
                /\ total_pts - before_pts <= item.deduct_from

\* the deductive item A10 was added with awards that sum below its floor
C4_Witness ==
    /\ Added # {} /\ LastAdded = 2
    /\ LET item == score_in.rubric[2]
       IN  /\ item.deduct_from > 0
           /\ item.deduct_from + SumSeq(RawPts(item, score_in.scores)) < 0
    /\ total_pts = before_pts

(***************************************************************************)
(* Properties of synchronize under crashes (SpecSync).                     *)
(***************************************************************************)
\* C5: after a crash at any point of synchronize the grades file holds the whole
\* ledger persisted before or the whole new ledger, never an empty or partly
\* written document
C5_CrashLeavesWholeLedger ==
    sync_pc = "crashed" => grades_file \in {persisted, json_dump(ledger)}

(***************************************************************************)
(* Persistence during the session (Spec).                                  *)
(***************************************************************************)
\* the session blocks on a prompt or starts a test callback
PromptOrTestStart ==
    /\ Running
    /\ \/ Top.pc \in {"action", "prompt"}
       \/ Top.pc = "test" /\ Top.deps = <<>>

\* C6 as stated: wherever the session blocks on an operator prompt or starts a test
\* callback, the persisted ledger holds exactly the awards and comments in memory
C6_PersistedAtEveryPrompt ==
    PromptOrTestStart => file = synchronize(grades)

\* the subitems of the item being prompted for that were answered already
Answered(code) ==
    /\ Running /\ Top.pc = "prompt"
    /\ code[1] = Top.item /\ code[2] < Top.idx

\* C6 amended: the ledger is persisted once per item: outside the manual prompts of
\* an item the file holds exactly the ledger in memory (so at every test start, at
\* every action prompt and at the prompt of the first subitem), and while the later
\* subitems are prompted for the file differs from memory only in the subitems of
\* that item answered so far
C6_PersistedPerItem ==
    /\ ~(Running /\ Top.pc = "prompt") => file = synchronize(grades)
    /\ (Running /\ Top.pc = "prompt") =>
          /\ DOMAIN json_load(file) = SubitemCodes
          /\ \A code \in SubitemCodes :
                ~Answered(code) => json_load(file)[code] = grades[code]

\* the prompt of the second subitem of B1, the first answer only in memory
C6_Witness ==
    /\ Running /\ Top.pc = "prompt" /\ Top.idx = 2
    /\ json_load(file)[SubitemCode(Top.item, 1)] # grades[SubitemCode(Top.item, 1)]

(***************************************************************************)
(* Properties of LateDays under concurrent processes (SpecLate).           *)
(***************************************************************************)
\* the submitters of a process, as a set
SubmittersOf(p) == {late[p].submitters[i] : i \in 1..Len(late[p].submitters)}

\* two processes deduct for different homeworks or for different students
DifferentTargets(p, q) ==
    \/ late[p].hw_name # late[q].hw_name
    \/ SubmittersOf(p) \cap SubmittersOf(q) = {}

\* C7: when the processes deduct for different students or different homeworks,
\* then after every process has finished update_late_days, the late days file holds
\* an entry for every (submitter, homework) of every process
C7_AllDeductionsKept ==
    (/\ \A p \in Procs : late[p].pc = "done"
     /\ \A p, q \in Procs : p # q => DifferentTargets(p, q)) =>
        \A p \in Procs : \A i \in 1..Len(late[p].submitters) :
            LET uni == late[p].submitters[i]
            IN  /\ uni \in DOMAIN late_days_file.content
                /\ late[p].hw_name \in DOMAIN late_days_file.content[uni]

(***************************************************************************)
(* Properties of test results and exceptions (Spec).                       *)
(***************************************************************************)
\* _grade_item is about to record the item: not test-only, no next-item or
\* next-submission chosen
Recording ==
    /\ Running /\ Top.pc = "grade"
    /\ ~env.test_only /\ ~next_item_flag /\ ~next_student_flag

\* C8: when the test callback returned a list whose length differs from the number
\* of subitems (shorter, longer or empty), recording the item is fatal and changes
\* no award or comment
C8_MisalignedListFatal ==
    [][(/\ Recording
        /\ Top.autogrades.kind = "list"
        /\ Misaligned(Top.item, Top.autogrades.list)) =>
          /\ status' = "fatal"
          /\ grades' = grades /\ file' = file]_vars

\* the test callback of the item at the top has raised
RaisedCase == Running /\ Top.pc = "grade" /\ Top.raised

\* C9 as stated: after the test callback of an item raised in an interactive session
\* the session goes on, the item is graded by the manual prompts with no autograde
\* result, and the items left to visit stay
C9_RaiseFallsToManual ==
    [][(RaisedCase /\ ~env.autograde_only) =>
          /\ status' = "grading" /\ todo' = todo
          /\ Top.autogrades = NoneResult
          /\ stack' = SetTop([Top EXCEPT !.pc = "prompt", !.idx = 1])]_vars

\* C9 amended: an exception of the test callback is always caught and never ends
\* the session nor drops an item left to visit; the item then goes to the manual
\* prompts, with no autograde result, exactly when the session is neither test-only
\* nor autograde-only and next-submission was not chosen in a dependency;
\* otherwise _grade_item returns without a prompt and the ledger is unchanged
C9_RaiseCaught ==
    [][/\ (Running /\ Top.pc = "test") => (status' = "grading" /\ todo' = todo)
       /\ RaisedCase =>
             /\ status' = "grading" /\ todo' = todo
             /\ Top.autogrades = NoneResult
             /\ grades' = grades /\ file' = file
             /\ IF Recording /\ ~env.autograde_only
                THEN stack' = SetTop([Top EXCEPT !.pc = "prompt", !.idx = 1])
                ELSE stack' = Tail(stack)]_vars

\* the manual prompt of an item whose test raised, other items left to visit
C9_Witness ==
    /\ Running /\ Top.pc = "prompt" /\ Top.raised
    /\ Top.item \in invoked
    /\ todo # <<>>

\* the test wrapper of the item at the top is called with an ungraded is_graded
\* dependency
BlockedCase ==
    /\ Running /\ Top.pc = "test" /\ Top.deps = <<>>
    /\ ungraded_dependencies(Top.item) # <<>>

\* C10 as stated: with an ungraded is_graded dependency the wrapper warns and the
\* test callback of the item is executed all the same
C10_WarnedTestStillRuns ==
    [][BlockedCase => (Top.item \in warned' /\ Top.item \in invoked')]_vars

\* C10 amended: with an ungraded is_graded dependency the wrapper warns and
\* returns None without executing the test callback, which is not recorded as
\* ran; the item is not blocked from grading: it goes on as with no autograde
\* result
C10_WarnedTestNotRun ==
    [][BlockedCase =>
          /\ Top.item \in warned'
          /\ invoked' = invoked /\ ran' = ran
          /\ grades' = grades /\ status' = status
          /\ stack' = SetTop([Top EXCEPT !.autogrades = NoneResult,
                                         !.pc = AfterTest(NoneResult)])]_vars

\* the action prompt of an item that was warned about and whose test never ran
C10_Witness ==
    /\ Running /\ Top.pc = "action"
    /\ Top.item \in warned /\ Top.item \notin invoked

(***************************************************************************)
(* Completeness and the policy in _get_submission_grades (SpecScore).      *)
(***************************************************************************)
\* the items of the rubric the filter lets through (line 192)
InScope ==
    {i \in 1..Len(score_in.rubric) :
        \/ score_in.rubric_code = "ALL"
        \/ StartsWith(score_in.rubric[i].code, score_in.rubric_code)}

\* _get_submission_grades has returned
Returned == score_pc = "returned" /\ score_in # <<>>

\* C11: if at least one subitem in scope is ungraded, _get_submission_grades
\* returns complete = false and get_points_and_comments is not called
C11_IncompleteNoPolicy ==
    (/\ Returned
     /\ \E i \in InScope : \E si \in 1..Len(score_in.rubric[i].subitems) :
            score_in.scores[SubitemCode(score_in.rubric[i].code, si)].award = "None") =>
        /\ score_out.graded = FALSE
        /\ score_out.applied = 0

\* ALL on a late submission whose only ungraded subitem is A10.2
C11_Witness ==
    /\ Returned
    /\ score_in.rubric_code = "ALL" /\ score_in.policy_data
    /\ score_in.scores[SubitemCode("A1", 1)].award # "None"
    /\ score_in.scores[SubitemCode("A10", 1)].award # "None"
    /\ score_in.scores[SubitemCode("A10", 2)].award = "None"
    /\ score_out.graded = FALSE

\* what one item adds to the total: the sum of the points of its awarded subitems,
\* for a deductive item added to deduct_from and kept within [0, deduct_from]
Contribution(item, scores) ==
    LET raw == SumSeq(RawPts(item, scores))
    IN  IF item.deduct_from > 0
        THEN Max(0, Min(item.deduct_from, item.deduct_from + raw))
        ELSE raw

RECURSIVE SumOver(_, _)
SumOver(S, f) ==
    IF S = {} THEN 0
    ELSE LET x == CHOOSE y \in S : TRUE IN f[x] + SumOver(S \ {x}, f)

\* the raw per-item total of the items in scope
RawTotal ==
    SumOver(InScope, [i \in InScope |-> Contribution(score_in.rubric[i], score_in.scores)])

\* the submission is complete for the filter
Complete == Returned /\ score_out.graded

\* C12 as stated: for a complete submission the policy is applied exactly once for
\* ALL and never for a table or item code, and for a table or item code the points
\* returned are the raw per-item total of the items in scope
C12_PolicyOnlyForAll ==
    Complete =>
        /\ score_out.applied = (IF score_in.rubric_code = "ALL" THEN 1 ELSE 0)
        /\ score_in.rubric_code # "ALL" => score_out.pts = RawTotal * 100

\* C12 amended: as stated, except that the points returned for a table or item code
\* are the raw per-item total floored at zero (line 255)
C12_PolicyOnlyForAllFloored ==
    Complete =>
        /\ score_out.applied = (IF score_in.rubric_code = "ALL" THEN 1 ELSE 0)
        /\ score_in.rubric_code # "ALL" => score_out.pts = Max(RawTotal, 0) * 100

\* a complete late submission scored for table A: positive raw total, no penalty
C12_Witness ==
    /\ Complete
    /\ score_in.rubric_code = "A" /\ score_in.policy_data
    /\ RawTotal > 0
    /\ score_out.pts = RawTotal * 100
    /\ score_out.applied = 0

(***************************************************************************)
(* Properties of the grading policies (SpecPolicy).                        *)
(***************************************************************************)
\* C14: calling get_points_and_comments twice with the same points, the same
\* comment list and the same policy data returns the same points and the same
\* comments both times, and each call leaves the caller's comment list unmodified.
C14_PolicyPure ==
    /\ Len(pol_out) >= 1 => pol_caller = pol_orig.comments
    /\ Len(pol_out) = 2 => pol_out[1] = pol_out[2]

\* C15: the composite applies its policies in the order of its construction
\* list, whatever the key order of the policy-data map: at every point of a call
\* the points and comments are what the policies so far, taken in construction
\* order and each given the data stored under its own name, make of the points
\* and comments passed in, a policy whose name is absent from the map changing
\* nothing.
C15_ConstructionOrder ==
    /\ Len(pol_out) = 0 =>
          [pts |-> pol_pts, comments |-> PolicyComments]
              \in ChainOutcomes(SubSeq(pol_chain, 1, pol_idx - 1), DataView(pol_data), pol_orig)
    /\ Len(pol_out) >= 1 =>
          pol_out[1] \in ChainOutcomes(pol_chain, DataView(pol_data), pol_orig)

\* a call has returned whose two first policies both act, stand in the map in the
\* opposite order, and whose third policy is absent from the map
C15_Witness ==
    /\ Len(pol_out) = 1
    /\ pol_chain = <<"LatePercentagePenaltyPolicy", "PlagiarismPolicy", "GoodJobPolicy">>
    /\ Len(pol_data) = 2
    /\ pol_data[1][1] = "PlagiarismPolicy" /\ pol_data[1][2] # <<>>
    /\ pol_data[2][1] = "LatePercentagePenaltyPolicy" /\ pol_data[2][2] = TRUE
    /\ pol_out[1].comments[1].text = "flagged for plagiarism"
    /\ pol_out[1].comments[2].text = "(LATE)"

\* PlagiarismPolicy.get_points_and_comments is running on the data stored for it
PlagiarismRuns ==
    /\ pol_pc = "loop" /\ pol_idx' = pol_idx + 1
    /\ pol_chain[pol_idx] = "PlagiarismPolicy"
    /\ "PlagiarismPolicy" \in KeysOf(pol_data)

\* C16 as stated: with at least one match the result has score 0 and a comment
\* list of exactly one message, the flag with the report links, whatever comments
\* were passed in; with no match points and comments are returned unchanged.
C16_PlagiarismReplaces ==
    [][PlagiarismRuns =>
          IF Lookup(pol_data, "PlagiarismPolicy") # <<>>
          THEN /\ pol_pts' = 0
               /\ PolicyComments' =
                     <<Comment("flagged for plagiarism", Lookup(pol_data, "PlagiarismPolicy"))>>
          ELSE /\ pol_pts' = pol_pts
               /\ PolicyComments' = PolicyComments]_vars

\* C16, amended: with at least one match the result has score 0 and its comments
\* are the flag message with the report links followed by the comments passed
\* in; with no match points and comments are returned unchanged.
C16_PlagiarismPrepends ==
    [][PlagiarismRuns =>
          IF Lookup(pol_data, "PlagiarismPolicy") # <<>>
          THEN /\ pol_pts' = 0
               /\ PolicyComments' =
                     <<Comment("flagged for plagiarism", Lookup(pol_data, "PlagiarismPolicy"))>>
                        \o PolicyComments
          ELSE /\ pol_pts' = pol_pts
               /\ PolicyComments' = PolicyComments]_vars

\* the plagiarism policy alone has returned for a submission with a match, having
\* been passed a comment
C16_Witness ==
    /\ Len(pol_out) = 1
    /\ pol_chain = <<"PlagiarismPolicy">>
    /\ "PlagiarismPolicy" \in KeysOf(pol_data)
    /\ Lookup(pol_data, "PlagiarismPolicy") # <<>>
    /\ pol_orig.pts > 0 /\ pol_orig.comments # <<>>
    /\ pol_out[1].pts = 0
    /\ Len(pol_out[1].comments) = 1 + Len(pol_orig.comments)

(***************************************************************************)
(* Properties of the grades file over several sessions (SpecLedger).       *)
(***************************************************************************)
\* the submitters with an entry in a grades file
NamesIn(f) == {f.entries[i].name : i \in 1..Len(f.entries)}

\* the policy data stored for a submitter in a grades file, if any
StoredPolicy(f, n) == f.entries[CHOOSE i \in 1..Len(f.entries) : f.entries[i].name = n].policy

StoredScores(f, n) ==
    LET e == f.entries[CHOOSE i \in 1..Len(f.entries) : f.entries[i].name = n]
    IN  [code \in {e.scores[j].code : j \in 1..Len(e.scores)} |->
            e.scores[CHOOSE j \in 1..Len(e.scores) : e.scores[j].code = code].score]

\* the subitem codes of the rubric of the session
RubricCodes ==
    UNION {{SubitemCode(lg_rubric[i].item, k) : k \in 1..lg_rubric[i].subitems} :
              i \in 1..Len(lg_rubric)}

\* a constructor has loaded a grades file that existed
LoadedExisting == lg_pc = "constructed" /\ lg_prev.exists

\* C17: loading a persisted grades file against a rubric reconciles every
\* submitter's entry: after the load the score keys of the entry are exactly the
\* subitem codes of the rubric, every code new to the rubric is ungraded (award
\* and comments null), and every code that is in the file and in the rubric keeps
\* its stored award and comments.
C17_ReconciledOnLoad ==
    LoadedExisting =>
        \A n \in NamesIn(lg_file) :
            /\ DOMAIN StoredScores(lg_file, n) = RubricCodes
            /\ n \in NamesIn(lg_prev) =>
                  \A code \in RubricCodes :
                      StoredScores(lg_file, n)[code] =
                          IF code \in DOMAIN StoredScores(lg_prev, n)
                          THEN StoredScores(lg_prev, n)[code]
                          ELSE [award |-> "None", comments |-> "None"]

\* a file was loaded whose entry of some submitter had a graded code that the
\* rubric still has, lacked a code of the rubric, and the entry is in the file now
C17_Witness ==
    /\ LoadedExisting
    /\ \E n \in NamesIn(lg_prev) \cap NamesIn(lg_file) :
          /\ DOMAIN StoredScores(lg_prev, n) # RubricCodes
          /\ \E code \in RubricCodes \cap DOMAIN StoredScores(lg_prev, n) :
                /\ StoredScores(lg_prev, n)[code].award = "True"
                /\ StoredScores(lg_file, n)[code].award = "True"
          /\ \E code \in RubricCodes \ DOMAIN StoredScores(lg_prev, n) :
                StoredScores(lg_file, n)[code].award = "None"

\* the subitem codes the rubric of the session yields twice
DuplicatedCodes ==
    {code \in RubricCodes :
        \E i, j \in 1..Len(lg_rubric) :
            /\ i # j /\ lg_rubric[i].item = lg_rubric[j].item
            /\ \E k \in 1..lg_rubric[i].subitems : code = SubitemCode(lg_rubric[i].item, k)}

\* C19: whenever the rubric yields the same subitem code twice, starting a
\* grading session fails with a fatal error that names the duplicated code,
\* whether a grades file exists already or not.
C19_DuplicateFatal ==
    (lg_pc # "idle" /\ DuplicatedCodes # {}) =>
        /\ lg_pc = "fatal"
        /\ lg_fatal \in {<<code>> : code \in DuplicatedCodes}

\* C20 as stated: an entry of the grades file is never removed: whatever the
\* program does, every submitter that was in the file before is still in it.
C20_EntryNeverRemoved ==
    [][NamesIn(lg_file) \subseteq NamesIn(lg_file')]_vars

\* the constructor of BorowskiGrades runs to its end
BorowskiConstructed ==
    lg_pc = "idle" /\ lg_pc' = "constructed" /\ lg_kind' = "BorowskiGrades"

\* C20, amended: only the constructor of BorowskiGrades removes entries: it
\* leaves in the file exactly the entries, the one of its submitter included,
\* whose submitter is a key of its submissions; every other step, the constructor
\* of Grades included, keeps every submitter that was in the file.
C20_OnlyBorowskiPrunes ==
    [][IF BorowskiConstructed
       THEN NamesIn(lg_file') = (NamesIn(lg_file) \cup {lg_submitter'}) \cap lg_submissions'
       ELSE NamesIn(lg_file) \subseteq NamesIn(lg_file')]_vars

\* the constructor of BorowskiGrades found an entry of a submitter who is not in
\* its submissions, and the file holds that entry no more
C20_Witness ==
    /\ lg_pc = "constructed" /\ lg_kind = "BorowskiGrades"
    /\ \E n \in NamesIn(lg_prev) : n \notin lg_submissions /\ n \notin NamesIn(lg_file)
    /\ lg_submitter \in NamesIn(lg_file)

(***************************************************************************)
(* Properties of the loading of a rubric (SpecLoad).                       *)
(***************************************************************************)
\* the items of the document, and those of one of its tables
AllDocItems == {rl_doc[i].code : i \in 1..Len(rl_doc)}

DocItemsOf(table) == {rl_doc[i].code : i \in {j \in 1..Len(rl_doc) : rl_doc[j].table = table}}

\* the items a created item depends on
ResolvedOf(i) == {rl_rubric[i].has_ran[k] : k \in 1..Len(rl_rubric[i].has_ran)}

\* the place of an item of the document holds the key in its depends_on list
HoldsKey(i, key) == \E k \in 1..Len(rl_doc[i].has_ran) : rl_doc[i].has_ran[k] = key

\* C18: in a loaded rubric "ALL" on any item resolves to every item of the whole
\* rubric and a table code resolves to every item of that table, wherever the
\* depending item stands in the document: a document whose references are to
\* "ALL" and to its own tables loads, and the lists hold all those items.
C18_ResolvesWholeRubric ==
    /\ (\A i \in 1..Len(rl_doc) :
            /\ \A k \in 1..Len(rl_doc[i].has_ran) : rl_doc[i].has_ran[k] \in {"ALL", "A", "B"}
            /\ \A k \in 1..Len(rl_doc[i].is_graded) : rl_doc[i].is_graded[k] = "ALL")
          => rl_pc # "raised"
    /\ rl_pc = "loaded" =>
          \A i \in 1..Len(rl_rubric) :
              /\ HoldsKey(i, "ALL") => AllDocItems \subseteq ResolvedOf(i)
              /\ \A table \in {"A", "B"} :
                    HoldsKey(i, table) => DocItemsOf(table) \subseteq ResolvedOf(i)

UnknownCode == env.code \in {"C", "A3", "C1"}

\* Grader.grade has failed before a test ran or a frame of _grade_item was entered
FailedBeforeGrading ==
    /\ status = "fatal" /\ error # <<>>
    /\ invoked = {} /\ ran = {} /\ warned = {}
    /\ stack = <<>> /\ todo = <<>>
    /\ file = synchronize(grades)

\* C22 as stated: with a rubric code that names a table or an item the rubric
\* does not contain, Grader.grade fails with an error naming that code, before
\* any test callback is run and before any award or comment is recorded.
C22_UnknownCodeNamed ==
    /\ [](UnknownCode /\ status # "idle" => FailedBeforeGrading /\ error[2] = env.code)
    /\ [][UnknownCode => grades' = grades /\ file' = file]_vars

\* C22, amended: Grader.grade fails before any test callback is run and before
\* any award or comment is recorded; the error names the table when the rubric
\* lacks the table (for an item code: its first character, not the item code) and
\* names the item code when the rubric has the table but not the item.
C22_UnknownCodeFatal ==
    /\ [](UnknownCode /\ status # "idle" =>
            /\ FailedBeforeGrading
            /\ error = (IF env.code = "A3" THEN <<"does not have rubric item", "A3">>
                        ELSE <<"does not have table", "C">>))
    /\ [][UnknownCode => grades' = grades /\ file' = file]_vars

\* grade was called with the code of an item of a table the rubric lacks
C22_Witness ==
    /\ env.code = "C1" /\ status = "fatal"
    /\ error = <<"does not have table", "C">>

(***************************************************************************)
(* Further properties of _get_submission_grades (SpecScore).               *)
(***************************************************************************)
\* C23: whenever _get_submission_grades reports that the submission has not been
\* graded yet (first component false), the point total it returns is zero.
C23_IncompleteIsZero ==
    (Returned /\ score_out.graded = FALSE) => score_out.pts = 0

\* every subitem of the item with the code is graded
GradedItem(code) ==
    \A i \in 1..Len(score_in.rubric) :
        score_in.rubric[i].code = code =>
            \A si \in 1..Len(score_in.rubric[i].subitems) :
                score_in.scores[SubitemCode(code, si)].award # "None"

\* C28: for every item code K of the rubric, once all subitems of item K are
\* graded, _get_submission_grades(submitter, K), and with it status(K), reports
\* the submitter as complete, whatever the grading state of the other items (A10
\* for K = A1 included).
C28_ItemScopeAgrees ==
    \A K \in {"A1", "A10"} :
        (Returned /\ score_in.rubric_code = K /\ GradedItem(K)) => score_out.graded = TRUE

(***************************************************************************)
(* Properties of the recording step of the grading session (Spec).         *)
(***************************************************************************)
\* the innermost item's test produced an autograde result that fits the item:
\* True, or a list with one pair per subitem
AutogradeProduced ==
    /\ Running /\ Top.pc = "grade"
    /\ \/ Top.autogrades.kind = "True"
       \/ /\ Top.autogrades.kind = "list"
          /\ Len(Top.autogrades.list) = NumSubitems(Top.item)

\* what the autograde result of the innermost item says about its subitem i
AutogradeOf(i) ==
    IF Top.autogrades.kind = "True" THEN Score(TRUE, "")
    ELSE Score(Top.autogrades.list[i][1] = "y", Top.autogrades.list[i][2])

\* the step records the autograde result of the innermost item, in memory and
\* in the file, and _grade_item returns without a prompt
AutogradeRecorded ==
    /\ \A i \in 1..NumSubitems(Top.item) :
          /\ grades'[SubitemCode(Top.item, i)] = AutogradeOf(i)
          /\ json_load(file')[SubitemCode(Top.item, i)] = AutogradeOf(i)
    /\ stack' = Tail(stack)

\* C24 as stated: whenever an item's test produced an autograde result (True, or
\* a list of the right length), the result is recorded directly, without a
\* prompt: every subitem of the item gets the award and comment of the result.
C24_AutogradeRecorded ==
    [][AutogradeProduced => AutogradeRecorded]_vars

\* C24 amended: outside test-only mode, and unless "next submission" was chosen
\* while a dependency was graded, an autograde result (True, or a list of the
\* right length) is recorded directly, without a prompt; in test-only mode and
\* after "next submission" the result is dropped: no award, no comment and no
\* file content changes.
C24_AutogradeRecordedWhenGrading ==
    [][AutogradeProduced =>
          IF ~env.test_only /\ ~next_student_flag
          THEN AutogradeRecorded
          ELSE grades' = grades /\ file' = file /\ stack' = Tail(stack)]_vars

\* an autograde-only session recorded a list for B1: no prompt can have set these
C24_Witness ==
    /\ env.autograde_only /\ ~env.test_only /\ status = "done"
    /\ "B1" \in invoked
    /\ grades[SubitemCode("B1", 1)] = Score(FALSE, "c")
    /\ grades[SubitemCode("B1", 2)] = Score(TRUE, "")

\* C25: in test-only mode no step of the session changes an award or a comment,
\* in memory or in the file, whatever the rubric code, the test results and the
\* operator's answers; tests and their dependencies run all the same.
C25_TestOnlyRecordsNothing ==
    [][env.test_only => grades' = grades /\ file' = file]_vars

\* a test-only session ended after running tests, one of them as a dependency,
\* one of them with an autograde result, over a graded ledger
C25_Witness ==
    /\ env.test_only /\ status = "done"
    /\ dep_invoked # {} /\ invoked \ dep_invoked # {}
    /\ \A code \in SubitemCodes : grades[code] = Score(TRUE, "")

\* C26: while a fully graded item is graded as a has_ran dependency
\* (skip_if_graded off) and regrade mode is off, no award or comment of that
\* item changes, whatever its test returns and whatever the operator answers.
C26_DependencyNotRegraded ==
    [][(Running /\ ~env.regrade /\ ~Top.skip_if_graded /\ AllGraded(Top.item)) =>
          \A i \in 1..NumSubitems(Top.item) :
              grades'[SubitemCode(Top.item, i)] = grades[SubitemCode(Top.item, i)]]_vars

\* C27: once the operator chose "next submission", no further test callback is
\* run for the submitter, neither of a remaining dependency nor of the
\* dependent item.
C27_NextStudentStopsTests ==
    [][next_student_flag => invoked' = invoked]_vars

(***************************************************************************)
(* Further properties of the loading of a rubric (SpecLoad).               *)
(***************************************************************************)
\* the place of an item in the document
DocPosition(code) == CHOOSE i \in 1..Len(rl_doc) : rl_doc[i].code = code

\* every element of the list is an item declared before place i of the document
DeclaredEarlier(l, i) ==
    \A k \in 1..Len(l) :
        /\ l[k] \in AllDocItems
        /\ DocPosition(l[k]) < i

\* C29: in every rubric created from a document, each item's resolved has_ran
\* and is_graded dependencies are items declared strictly earlier in the
\* document, never the item itself or a later one: the dependency graph is
\* acyclic, so the recursion of _grade_item over has_ran ends.
C29_DependenciesDeclaredEarlier ==
    \A i \in 1..Len(rl_rubric) :
        /\ rl_rubric[i].code = rl_doc[i].code
        /\ DeclaredEarlier(rl_rubric[i].has_ran, i)
        /\ DeclaredEarlier(rl_rubric[i].is_graded, i)

\* a loaded rubric whose last item depends on both earlier items through "ALL",
\* and whose second item has an is_graded dependency on the first
C29_Witness ==
    /\ rl_pc = "loaded"
    /\ Len(rl_rubric[3].has_ran) = 2 /\ HoldsKey(3, "ALL")
    /\ rl_rubric[2].is_graded = <<"A1">>

(***************************************************************************)
(* Properties of the late days of one process (SpecBudget).                *)
(***************************************************************************)
\* C30: within one process, from a late days record in which every student's
\* total is at most TOTAL_LATE_DAYS, after any sequence of get_late_status calls
\* (any homework, any group of submitters, any lateness, on any LateDays object
\* of the process) every student's sum of recorded late days over all homeworks is
\* at most TOTAL_LATE_DAYS, in the file and in every object's class_late_days.
C30_WithinBudget ==
    /\ \A uni \in DOMAIN ld_file.content :
          SumValues(ld_file.content[uni]) <= TOTAL_LATE_DAYS
    /\ \A o \in Objects : \A uni \in DOMAIN ld_objects[o].class_late_days :
          SumValues(ld_objects[o].class_late_days[uni]) <= TOTAL_LATE_DAYS

\* a call was refused while a student has used the whole budget over two
\* homeworks, the kept object holding a record older than the file
C30_Witness ==
    /\ ld_status = "NO_LATE_DAYS"
    /\ ld_file.exists /\ DOMAIN ld_file.content = Unis
    /\ DOMAIN ld_file.content["u1"] = HWs
    /\ SumValues(ld_file.content["u1"]) = TOTAL_LATE_DAYS
    /\ \E o \in Objects : ld_objects[o].live /\ ld_objects[o].class_late_days # ld_file.content

====
